---- MODULE Spec2Model ----
(***************************************************************************)
(* Model of the script driver, execution Context and statement executor    *)
(* of the pqs / flummox / jockey query-script interpreter.                 *)
(*                                                                         *)
(*   contexts  the live Context objects; contexts[1] is the driver's       *)
(*             Context and contexts[i+1] the child made by the RUN that    *)
(*             the script of contexts[i] is executing                      *)
(*   stack     the active run_async calls, innermost last                  *)
(*   script    the driver's Script object (statements, source)             *)
(*   cwd       the process working directory                               *)
(*   exc, ret  the exception / the value travelling from a finished        *)
(*             run_async call to its caller                                *)
(*   lexer     the module-level lexer (its line counter and its state)     *)
(*   driver    the position of the caller of the Script (cli, repl or an   *)
(*             embedding program)                                          *)
(*   event     what the last step did to the outside world                 *)
(***************************************************************************)
EXTENDS Integers, Sequences, FiniteSets

VARIABLES contexts, stack, script, cwd, exc, ret, lexer, driver, event

vars == <<contexts, stack, script, cwd, exc, ret, lexer, driver, event>>

(***************************************************************************)
(* Bounds of the model.                                                    *)
(***************************************************************************)
\* statements in a Program handed to Script by an embedding program
MaxStmts == 2
\* lines typed into one REPL session
MaxLines == 2
\* Context objects alive at once when Contexts are built through the API
MaxContexts == 3

(***************************************************************************)
(* Paths.  A path is a sequence of components; it is absolute when its     *)
(* first component is "/".                                                 *)
(***************************************************************************)
NoSource == << >>

IsAbs(path) == Len(path) > 0 /\ path[1] = "/"

\* os.path.dirname
Dirname(path) == IF Len(path) = 0 THEN << >> ELSE SubSeq(path, 1, Len(path) - 1)

\* how the operating system resolves a path against the working directory
Resolve(dir, path) == IF IsAbs(path) THEN path ELSE dir \o path

StartDir == <<"/", "home">>

(***************************************************************************)
(* Tables.  A table is known by its identity; the ENV frame also carries   *)
(* the environment and the ARGV list it was built from.                    *)
(***************************************************************************)
EmptyDict == [k \in {} |-> ""]

\* dict[k] = v
DictSet(d, k, v) == [x \in DOMAIN d \cup {k} |-> IF x = k THEN v ELSE d[x]]

\* del dict[k]
DictDel(d, k) == [x \in DOMAIN d \ {k} |-> d[x]]

\* dict.update
DictUpdate(d, e) == [x \in DOMAIN d \cup DOMAIN e |-> IF x \in DOMAIN e THEN e[x] ELSE d[x]]

Table(id) == [id |-> id, env |-> EmptyDict, argv |-> << >>]

\* Python's None, the result of a statement that returns no table
None == Table("None")

\* pd.DataFrame()
EmptyFrame == Table("empty")

EnvFrame(env, argv) == [id |-> "ENV", env |-> env, argv |-> argv]

\* os.environ of the process, one variable
OsEnviron == [k \in {"USER"} |-> "u"]

(***************************************************************************)
(* Exceptions: the class, the "(source (line): " prefixes the driver has   *)
(* put in front of the message (outermost first), the innermost message,   *)
(* and the class of the exception it was raised in place of (__context__). *)
(***************************************************************************)
NoExc == [type |-> "None", notes |-> << >>, msg |-> "", context |-> "None"]

Raise(type, msg) == [type |-> type, notes |-> << >>, msg |-> msg, context |-> "None"]

\* SystemExit derives from BaseException, not from Exception
IsBaseException(ex) == ex.type # "None"

IsException(ex) == ex.type \notin {"None", "SystemExit"}

(***************************************************************************)
(* Context (context.py).  A record holds the attributes of the object and  *)
(* `given`, the three allow_* arguments its constructor was called with.   *)
(***************************************************************************)
Flags == [allow_read : BOOLEAN, allow_connect : BOOLEAN, allow_run : BOOLEAN]

AllAllowed == [allow_read |-> TRUE, allow_connect |-> TRUE, allow_run |-> TRUE]

\* parent_context=None
NoContext ==
    [frames |-> EmptyDict, sources |-> EmptyDict, env |-> EmptyDict,
     allow_read |-> TRUE, allow_connect |-> TRUE, allow_run |-> TRUE,
     given |-> AllAllowed]

\* allow_x and (parent_context.allow_x if parent_context else True)
NarrowWidened(flag, parent_context, parent_flag) == flag

Narrow(flag, parent_context, parent_flag) ==
    flag /\ (IF parent_context # NoContext THEN parent_flag ELSE TRUE)

\* Context.__init__: frames and sources are new dicts filled from the parent's
ContextInit(parent_context, env, argv, given) ==
    LET inherited == IF parent_context # NoContext THEN parent_context.frames ELSE EmptyDict
        selfenv   == DictUpdate(IF parent_context # NoContext
                                THEN parent_context.env ELSE EmptyDict, env)
        withenv   == DictSet(inherited, "ENV", EnvFrame(selfenv, argv))
    IN  [frames  |-> DictSet(withenv, "it", EmptyFrame),
         sources |-> IF parent_context # NoContext THEN parent_context.sources ELSE EmptyDict,
         env     |-> selfenv,
         allow_read    |-> Narrow(given.allow_read, parent_context, parent_context.allow_read),
         allow_connect |-> Narrow(given.allow_connect, parent_context, parent_context.allow_connect),
         allow_run     |-> Narrow(given.allow_run, parent_context, parent_context.allow_run),
         given   |-> given]

\* the `it` setter and frames[into] = it of the driver write one Context's dict
SetFrameShared(ctxs, i, name, table) ==
    [j \in 1..Len(ctxs) |->
        IF j <= i THEN [ctxs[j] EXCEPT !.frames = DictSet(@, name, table)] ELSE ctxs[j]]

SetFrame(ctxs, i, name, table) ==
    [ctxs EXCEPT ![i].frames = DictSet(@, name, table)]

\* Context.register
Register(context, name, source) ==
    [context EXCEPT !.sources = DictSet(@, name, source)]

(***************************************************************************)
(* Terms (term.py) and statements (statement.py).  A statement is a record *)
(* of the dataclass's fields and `cls`, its class.                         *)
(***************************************************************************)
Literal(value) == [cls |-> "Literal", value |-> value]

\* Literal.evaluate
Evaluate(term, df) == term.value

(***************************************************************************)
(* Terms over tables (term.py).  A value is a Python scalar or a pandas     *)
(* Series; numbers are kept as fractions n/d so that / is exact and the     *)
(* floats inf and nan are 1/0 and 0/0.                                      *)
(***************************************************************************)
Integer(n) == [t |-> "int", n |-> n, d |-> 1]

Bool(b) == [t |-> "bool", n |-> IF b THEN 1 ELSE 0, d |-> 1]

RECURSIVE Gcd(_, _)
Gcd(a, b) == IF b = 0 THEN a ELSE Gcd(b, a % b)

\* the float a / b, b not zero
Float(a, b) == [t |-> "float", n |-> a \div Gcd(a, b), d |-> b \div Gcd(a, b)]

NaN == [t |-> "float", n |-> 0, d |-> 0]

Inf == [t |-> "float", n |-> 1, d |-> 0]

\* what Python raises in place of a value
ZeroDivisionError == [t |-> "ZeroDivisionError", n |-> 0, d |-> 0]

RECURSIVE Pow(_, _)
Pow(a, b) == IF b = 0 THEN 1 ELSE a * Pow(a, b - 1)

\* & and | on the bits of two naturals
RECURSIVE BitAnd(_, _)
BitAnd(a, b) ==
    IF a = 0 \/ b = 0 THEN 0
    ELSE (IF a % 2 = 1 /\ b % 2 = 1 THEN 1 ELSE 0) + 2 * BitAnd(a \div 2, b \div 2)

RECURSIVE BitOr(_, _)
BitOr(a, b) ==
    IF a = 0 THEN b ELSE IF b = 0 THEN a
    ELSE (IF a % 2 = 1 \/ b % 2 = 1 THEN 1 ELSE 0) + 2 * BitOr(a \div 2, b \div 2)

\* the keys of binary_ops
BinaryOps == {"+", "-", "*", "/", "%", "^", "<", ">", "<=", ">=", "<>", "=", "AND", "OR"}

\* int & int is an int, bool & bool a bool
Bits(a, b, n) == IF a.t = "bool" /\ b.t = "bool" THEN Bool(n = 1) ELSE Integer(n)

\* binary_ops[op](a, b) on two Python numbers
Operator(op, a, b) ==
    CASE op = "+"   -> Integer(a.n + b.n)
      [] op = "-"   -> Integer(a.n - b.n)
      [] op = "*"   -> Integer(a.n * b.n)
      [] op = "/"   -> IF b.n = 0 THEN ZeroDivisionError ELSE Float(a.n, b.n)
      [] op = "%"   -> IF b.n = 0 THEN ZeroDivisionError ELSE Integer(a.n % b.n)
      [] op = "^"   -> Integer(Pow(a.n, b.n))
      [] op = "<"   -> Bool(a.n < b.n)
      [] op = ">"   -> Bool(a.n > b.n)
      [] op = "<="  -> Bool(a.n <= b.n)
      [] op = ">="  -> Bool(a.n >= b.n)
      [] op = "<>"  -> Bool(a.n # b.n)
      [] op = "="   -> Bool(a.n = b.n)
      [] op = "AND" -> Bits(a, b, BitAnd(a.n, b.n))
      [] op = "OR"  -> Bits(a, b, BitOr(a.n, b.n))

\* the same on an element of a Series: pandas divides by zero without raising
ElementWise(op, a, b) ==
    IF op = "/" /\ b.n = 0 THEN (IF a.n = 0 THEN NaN ELSE Inf)
    ELSE IF op = "%" /\ b.n = 0 THEN NaN
    ELSE Operator(op, a, b)

NoName == "None"

Scalar(v) == [kind |-> "scalar", name |-> NoName, index |-> << >>, values |-> <<v>>]

Series(name, index, values) ==
    [kind |-> "series", name |-> name, index |-> index, values |-> values]

\* an exception raised in place of a value
Raising(type) == [kind |-> "raise", name |-> type, index |-> << >>, values |-> << >>]

\* pd.DataFrame: index labels, and columns (name, values) in order
Frame(index, columns) == [index |-> index, columns |-> columns]

ColumnNames(df) == [c \in 1..Len(df.columns) |-> df.columns[c].name]

\* df[name]
GetItem(df, name) ==
    IF \E c \in 1..Len(df.columns) : df.columns[c].name = name
    THEN LET c == CHOOSE c \in 1..Len(df.columns) : df.columns[c].name = name
         IN  Series(name, df.index, df.columns[c].values)
    ELSE Raising("KeyError")

Column(name) == [cls |-> "Column", name |-> name]

BinaryTerm(l, r, op) == [cls |-> "BinaryTerm", l |-> l, r |-> r, op |-> op]

\* a variant that applies the operator to the first row only
ApplyFirst(op, l, r) ==
    IF l.kind = "series" /\ r.kind = "scalar" /\ Len(l.values) > 0
    THEN Series(l.name, <<l.index[1]>>, <<ElementWise(op, l.values[1], r.values[1])>>)
    ELSE Scalar(Operator(op, l.values[1], r.values[1]))

\* self.op(l, r) on evaluated operands; two Series here are columns of one
\* table and so have one index
Apply(op, l, r) ==
    IF l.kind = "raise" THEN l
    ELSE IF r.kind = "raise" THEN r
    ELSE IF l.kind = "scalar" /\ r.kind = "scalar"
    THEN LET x == Operator(op, l.values[1], r.values[1])
         IN  IF x = ZeroDivisionError THEN Raising("ZeroDivisionError") ELSE Scalar(x)
    ELSE IF l.kind = "series" /\ r.kind = "scalar"
    THEN Series(l.name, l.index,
                [i \in 1..Len(l.values) |-> ElementWise(op, l.values[i], r.values[1])])
    ELSE IF l.kind = "scalar" /\ r.kind = "series"
    THEN Series(r.name, r.index,
                [i \in 1..Len(r.values) |-> ElementWise(op, l.values[1], r.values[i])])
    ELSE Series(IF l.name = r.name THEN l.name ELSE NoName, l.index,
                [i \in 1..Len(l.values) |-> ElementWise(op, l.values[i], r.values[i])])

UnaryTerm(term, op) == [cls |-> "UnaryTerm", term |-> term, op |-> op]

\* unary_ops and the two helpers of functions.py
UnaryOps == {"-", "NOT", "is_na", "is_not_na"}

\* math.isnan(x)
IsNan(a) == a.t = "float" /\ a.n = 0 /\ a.d = 0

\* operator.neg, operator.not_, is_na and is_not_na on a Python number: nan is
\* true, and -x of a bool is an int
UnaryOperator(op, a) ==
    CASE op = "-"     -> IF a.t = "float" THEN [a EXCEPT !.n = 0 - @] ELSE Integer(0 - a.n)
      [] op = "NOT"   -> Bool(a.n = 0 /\ ~IsNan(a))
      [] op = "is_na" -> Bool(IsNan(a))
      [] op = "is_not_na" -> Bool(~IsNan(a))

\* self.op(x) on the evaluated operand: -x, x.isna() and x.notna() of a Series
\* are element-wise, operator.not_ asks for the truth value of the Series
ApplyUnary(op, x) ==
    IF x.kind = "raise" THEN x
    ELSE IF x.kind = "scalar" THEN Scalar(UnaryOperator(op, x.values[1]))
    ELSE IF op = "NOT" THEN Raising("ValueError")
    ELSE Series(x.name, x.index, [i \in 1..Len(x.values) |-> UnaryOperator(op, x.values[i])])

FunctionTerm(f, args) == [cls |-> "FunctionTerm", f |-> f, args |-> args]

\* the keys of function_ops; of the functions only ifnull is applied here
FunctionOps ==
    {"exp", "float", "if", "ifnull", "int", "iota", "log", "log10", "split", "uuid"}

\* str.lower on the names that are called
Lower(name) ==
    CASE name = "IFNULL" -> "ifnull"
      [] name = "IfNull" -> "ifnull"
      [] name = "FOO"    -> "foo"
      [] name = "JSONL"  -> "jsonl"
      [] OTHER           -> name

\* a variant that looks the name up as it is written
FunctionOfExact(name) ==
    [known |-> name \in FunctionOps, name |-> name]

\* function_ops.get(p[1].lower(), unknown_function(p[1]))
FunctionOf(name) ==
    IF Lower(name) \in FunctionOps
    THEN [known |-> TRUE, name |-> Lower(name)]
    ELSE [known |-> FALSE, name |-> name]

\* unknown_function(f): the handler raises whatever it is called with
UnknownFunction(f) ==
    [kind |-> "raise", name |-> "RuntimeError", index |-> << >>,
     values |-> <<"Unknown function", f.name>>]

\* self.f(*args) on evaluated arguments; if_na(x, alt) gives x unless it is
\* None or NaN
CallFunction(f, args) ==
    IF \E a \in 1..Len(args) : args[a].kind = "raise"
    THEN args[CHOOSE a \in 1..Len(args) :
                 args[a].kind = "raise" /\ \A b \in 1..(a - 1) : args[b].kind # "raise"]
    ELSE IF ~f.known THEN UnknownFunction(f)
    ELSE IF Len(args) # 2 THEN Raising("TypeError")
    ELSE args[1]

\* Literal.evaluate, Column.evaluate, BinaryTerm.evaluate, UnaryTerm.evaluate,
\* FunctionTerm.evaluate
RECURSIVE TermValueOn(_, _)
TermValueOn(term, df) ==
    CASE term.cls = "Literal" -> Scalar(Evaluate(term, df))
      [] term.cls = "Column"  -> GetItem(df, term.name)
      [] term.cls = "BinaryTerm" ->
            Apply(term.op, TermValueOn(term.l, df), TermValueOn(term.r, df))
      [] term.cls = "UnaryTerm" -> ApplyUnary(term.op, TermValueOn(term.term, df))
      [] term.cls = "FunctionTerm" ->
            CallFunction(term.f, [a \in 1..Len(term.args) |-> TermValueOn(term.args[a], df)])

(***************************************************************************)
(* Statements (statement.py)                                               *)
(***************************************************************************)
Connect(alias, url, kind) == [cls |-> "Connect", alias |-> alias, url |-> url, kind |-> kind]
Create(dialect, block)    == [cls |-> "Create", dialect |-> dialect, block |-> block]
PrintStatement(table, term) == [cls |-> "Print", table |-> table, term |-> term]
Put(table)                == [cls |-> "Put", table |-> table]
Quit                      == [cls |-> "Quit"]
Read(file_or_url, table)  == [cls |-> "Read", file_or_url |-> file_or_url, table |-> table]
Run(table, args)          == [cls |-> "Run", table |-> table, args |-> args]

\* SQLSource(url)
SQLSource(url) == [kind |-> "SQL", url |-> url]

\* what Statement.execute hands back to the driver: the exception it raised or
\* the value it returned, the Context as it left it, and the outside effect
Returned(context, result, io) ==
    [raised |-> NoExc, result |-> result, context |-> context, io |-> io]

Raised(context, ex, io) ==
    [raised |-> ex, result |-> None, context |-> context, io |-> io]

\* context.frames[name] of a name that is no key
KeyError(name) == Raise("KeyError", name)

\* assert context.allow_x, 'X permission disabled'
AssertionError(verb) == Raise("AssertionError", verb)

\* Connect.execute; ok: sqlalchemy accepts the url
ConnectExecuteUngated(self, context, ok) ==
    IF self.kind = "SQL"
    THEN IF ok
         THEN Returned(Register(context, self.alias, SQLSource(self.url)), None, "connect")
         ELSE Raised(context, Raise("ArgumentError", "Could not parse URL"), "connect")
    ELSE Returned(context, None, "none")

ConnectExecute(self, context, ok) ==
    IF ~context.allow_connect
    THEN Raised(context, AssertionError("CONNECT"), "none")
    ELSE ConnectExecuteUngated(self, context, ok)

\* Create.execute: the dialect reads the block
CreateExecute(self, context) == Returned(context, Table(self.block), "none")

\* Print.execute
PrintExecute(self, context) ==
    IF self.table \notin DOMAIN context.frames
    THEN Raised(context, KeyError(self.table), "none")
    ELSE LET x == TermValueOn(self.term, context.frames[self.table])
         IN  IF x.kind = "raise"
             THEN Raised(context, Raise(x.name, IF Len(x.values) > 0 THEN x.values[1] ELSE ""),
                         "none")
             ELSE Returned(context, None, "none")

\* Put.execute
PutExecute(self, context) ==
    IF self.table \notin DOMAIN context.frames
    THEN Raised(context, KeyError(self.table), "none")
    ELSE Returned(context, context.frames[self.table], "none")

\* Quit.execute: sys.exit(0)
QuitExecute(self, context) == Raised(context, Raise("SystemExit", "0"), "none")

\* what the dialect reads from an opened location: the table of that name
Contents(location) == Table(location[Len(location)])

\* Read.execute; ok: the location can be opened and read
ReadExecuteUngated(self, context, ok) ==
    IF self.table \notin DOMAIN context.frames
    THEN Raised(context, KeyError(self.table), "none")
    ELSE IF ok
         THEN Returned(context, Contents(Evaluate(self.file_or_url, context.frames[self.table])),
                       "open")
         ELSE Raised(context, Raise("FileNotFoundError", "No such file"), "open")

ReadExecute(self, context, ok) ==
    IF ~context.allow_read
    THEN Raised(context, AssertionError("READ"), "none")
    ELSE ReadExecuteUngated(self, context, ok)

(***************************************************************************)
(* Script text and the parser (parser.py).  A text is a sequence of        *)
(* commands, one per line; `table` is "" where the text names no table and *)
(* `into` is "" where it has no INTO clause.                               *)
(***************************************************************************)
NoAlias == ""

Command(verb, table, arg, into) == [verb |-> verb, table |-> table, arg |-> arg, into |-> into]

\* the "targets a named table" and the "targets it" production of a verb
TableOf(cmd) == IF cmd.table = "" THEN "it" ELSE cmd.table

\* p_term_function: ident '(' termlist ')' with literals for terms
IsCall(arg) == Len(arg) >= 3 /\ arg[2] = "(" /\ arg[Len(arg)] = ")"

\* the term of a PRINT: a function call or a literal
ParseTerm(arg) ==
    IF IsCall(arg)
    THEN FunctionTerm(FunctionOf(arg[1]),
                      [a \in 1..((Len(arg) - 2) \div 2) |-> Literal(<<arg[2 * a + 1]>>)])
    ELSE Literal(arg)

\* the productions statement, command, command INTO ident and CREATE: the
\* statement built, its alias, and the exception the production raises
ParseCommand(cmd) ==
    CASE cmd.verb = "CREATE" /\ cmd.arg = << >> ->
            \* the text ends after <<TOKEN: p_error(None) reads p.lineno of None
            [raised |-> Raise("AttributeError", "lineno"), statement |-> Quit, into |-> NoAlias]
      [] cmd.verb = "CREATE" ->
            [raised |-> NoExc, statement |-> Create("CSV", cmd.arg[1]), into |-> cmd.table]
      [] cmd.verb = "PUT" ->
            [raised |-> NoExc, statement |-> Put(TableOf(cmd)), into |-> cmd.into]
      [] cmd.verb = "PRINT" ->
            [raised |-> NoExc, statement |-> PrintStatement(TableOf(cmd), ParseTerm(cmd.arg)),
             into |-> cmd.into]
      [] cmd.verb = "READ" ->
            [raised |-> NoExc, statement |-> Read(Literal(cmd.arg), TableOf(cmd)),
             into |-> cmd.into]
      [] cmd.verb = "RUN" ->
            [raised |-> NoExc, statement |-> Run(TableOf(cmd), <<Literal(cmd.arg)>>),
             into |-> cmd.into]
      [] cmd.verb = "QUIT" ->
            [raised |-> NoExc, statement |-> Quit, into |-> cmd.into]
      [] cmd.verb = "CONNECT" ->
            \* p_connect calls Connect(alias=, url=, typ=); the dataclass has no typ
            [raised |-> Raise("TypeError", "typ"), statement |-> Quit, into |-> NoAlias]
      [] OTHER ->
            [raised |-> Raise("SyntaxError", "Syntax error"), statement |-> Quit, into |-> NoAlias]

\* t_BLOCK: the line opens a heredoc that the text does not close
OpensBlock(cmd) == cmd.verb = "CREATE" /\ cmd.arg = << >>

\* parser.parse(string, lexer=lexer, tracking=True): the Program, the exception
\* raised, and the lexer afterwards; lexer.input resets neither the line counter
\* nor the state.  nl is 1 when every line of the text ends in a newline and 0
\* for one line without (console input).
\* p_program: the statements collected with their line numbers, or the parse
\* stopped at the first production that raises (stop; 0 when none does)
Program(text, parsed, stop, lx, nl) ==
    IF stop = 0
    THEN [raised  |-> NoExc,
          program |-> [i \in 1..Len(text) |->
                         [line |-> lx.lineno + (i - 1) * nl,
                          statement |-> parsed[i].statement,
                          into |-> parsed[i].into]],
          lexer   |-> [lx EXCEPT !.lineno = @ + Len(text) * nl]]
    ELSE [raised  |-> parsed[stop].raised,
          program |-> << >>,
          lexer   |-> [lineno |-> lx.lineno + (stop - 1) * nl,
                       state  |-> IF OpensBlock(text[stop]) THEN "block" ELSE lx.state]]

\* the first of the productions that raises, 0 when none does
FirstRaised(parsed) ==
    IF \A i \in 1..Len(parsed) : parsed[i].raised = NoExc THEN 0
    ELSE CHOOSE i \in 1..Len(parsed) :
            /\ parsed[i].raised # NoExc
            /\ \A j \in 1..(i - 1) : parsed[j].raised = NoExc

ParseStopped(text, parsed, lx, nl) == Program(text, parsed, FirstRaised(parsed), lx, nl)

ParseInitial(text, lx, nl) ==
    ParseStopped(text, [i \in 1..Len(text) |-> ParseCommand(text[i])], lx, nl)

\* the lexer was left in the block state: a line with a newline is a RAW token,
\* with which no program starts, and one without matches no block rule, so
\* t_block_error pops the state and raises
Parse(text, lx, nl) ==
    IF lx.state = "INITIAL" \/ text = << >>
    THEN ParseInitial(text, lx, nl)
    ELSE [raised  |-> Raise("SyntaxError", "Syntax error"),
          program |-> << >>,
          lexer   |-> IF nl = 0 THEN [lx EXCEPT !.state = "INITIAL"]
                      ELSE [lx EXCEPT !.lineno = @ + 1]]

(***************************************************************************)
(* The files a script can be loaded from, and the directories there are.   *)
(***************************************************************************)
SubPql  == <<"jobs", "sub.pql">>
NestPql == <<"jobs", "nest.pql">>
LeafPql == <<"deep", "leaf.pql">>
OnePql  == <<"jobs", "one.pql">>

FileSystem ==
    [path \in {StartDir \o SubPql, StartDir \o NestPql, StartDir \o <<"jobs">> \o LeafPql,
                StartDir \o OnePql} |->
        CASE path = StartDir \o OnePql ->
                <<Command("CREATE", "a", <<"T4">>, NoAlias)>>
          [] path = StartDir \o SubPql ->
                <<Command("CREATE", "a", <<"T2">>, NoAlias), Command("PRINT", "", <<"done">>, NoAlias)>>
          [] path = StartDir \o NestPql ->
                <<Command("RUN", "", LeafPql, "a"), Command("QUIT", "", << >>, NoAlias),
                  Command("PRINT", "", <<"unreached">>, NoAlias)>>
          [] OTHER ->
                <<Command("PUT", "a", << >>, "b"), Command("READ", "", <<"T3.csv">>, NoAlias),
                  Command("PRINT", "b", <<"read">>, NoAlias)>>]

Directories ==
    UNION {{SubSeq(path, 1, n) : n \in 1..(Len(path) - 1)} : path \in DOMAIN FileSystem}

(***************************************************************************)
(* Script (script.py)                                                      *)
(***************************************************************************)
\* Script.loads: the new statements and source of the Script, the exception
\* raised, and the lexer's line counter
\* Script.loads around the call of the parser (p: what the parser did)
LoadsParsed(self, p, source) ==
    IF p.raised = NoExc
    THEN [raised |-> NoExc, statements |-> p.program, source |-> source,
          lexer |-> p.lexer]
    ELSE [raised |-> IF p.raised.type = "SyntaxError" /\ source # NoSource
                     THEN [p.raised EXCEPT !.notes = <<[source |-> source, line |-> 0]>> \o @]
                     ELSE p.raised,
          statements |-> self.statements, source |-> self.source,
          lexer |-> p.lexer]

Loads(self, string, source, lx, nl) == LoadsParsed(self, Parse(string, lx, nl), source)

\* Script.load: smart_open.open resolves the name against the working directory
Load(self, file_or_url, dir, lx) ==
    IF Resolve(dir, file_or_url) \notin DOMAIN FileSystem
    THEN [raised |-> Raise("FileNotFoundError", "No such file"),
          statements |-> self.statements, source |-> self.source, lexer |-> lx]
    ELSE Loads(self, FileSystem[Resolve(dir, file_or_url)], file_or_url, lx, 1)

\* Script.__init__
NewScript == [statements |-> << >>, source |-> NoSource]

\* run_async, "update the context": self.context.it = result, frames[into] = it
UpdateContextAlias(ctxs, i, result, into) ==
    IF into # NoAlias
    THEN SetFrame(IF result # None THEN SetFrame(ctxs, i, "it", result) ELSE ctxs,
                  i, into, IF result # None THEN result ELSE ctxs[i].frames["it"])
    ELSE IF result # None THEN SetFrame(ctxs, i, "it", result) ELSE ctxs

UpdateContext(ctxs, i, result, into) ==
    IF result # None
    THEN IF into # NoAlias
         THEN SetFrame(SetFrame(ctxs, i, "it", result), i, into, result)
         ELSE SetFrame(ctxs, i, "it", result)
    ELSE ctxs

\* the driver's annotation f'{self.source} ({line}): ...'
Annotate(ex, source, line) ==
    [type |-> "RuntimeError", notes |-> <<[source |-> source, line |-> line]>> \o ex.notes,
     msg |-> ex.msg, context |-> ex.type]

\* run_async, the two except clauses around statement.execute: a KeyError is
\* always re-raised annotated, any other Exception only when the Script has a source
ExceptAlways(ex, source, line) ==
    IF ex.type = "KeyError" THEN Annotate(ex, source, line)
    ELSE IF IsException(ex) THEN Annotate(ex, source, line)
    ELSE ex

Except(ex, source, line) ==
    IF ex.type = "KeyError" THEN Annotate(ex, source, line)
    ELSE IF IsException(ex)
         THEN IF source # NoSource THEN Annotate(ex, source, line) ELSE ex
    ELSE ex

\* Run.run: the child Context, and args[0] loaded into a new Script (ld)
RunLoaded(context, args, ld) ==
    [raised |-> ld.raised, made |-> TRUE, io |-> "load",
     child  |-> ContextInit(context, EmptyDict, args, AllAllowed),
     script |-> [statements |-> ld.statements, source |-> ld.source],
     lexer  |-> ld.lexer]

RunRun(context, dir, lx, args) == RunLoaded(context, args, Load(NewScript, args[1], dir, lx))

\* Run.execute up to the await: the permission check, the table, the arguments,
\* and Run.run
RunExecuteUngated(self, context, dir, lx) ==
    IF self.table \notin DOMAIN context.frames
    THEN [raised |-> KeyError(self.table), made |-> FALSE, io |-> "none",
          child |-> NoContext, script |-> NewScript, lexer |-> lx]
    ELSE RunRun(context, dir, lx, [i \in 1..Len(self.args) |->
                                     Evaluate(self.args[i], context.frames[self.table])])

RunExecute(self, context, dir, lx) ==
    IF ~context.allow_run
    THEN [raised |-> AssertionError("RUN"), made |-> FALSE, io |-> "none",
          child |-> NoContext, script |-> NewScript, lexer |-> lx]
    ELSE RunExecuteUngated(self, context, dir, lx)

\* Run.execute after the await: no result is an empty frame
RunResultKept(data) == data

RunResult(data) == IF data = None THEN EmptyFrame ELSE data

\* one pass of "for line, statement, into in self.statements" given what
\* statement.execute did: the call's frame, the Contexts, the exception raised
IterateOn(f, ctxs, d, o) ==
    IF o.raised = NoExc
    THEN [frame    |-> [f EXCEPT !.pc = @ + 1, !.result = o.result],
          contexts |-> UpdateContext([ctxs EXCEPT ![d] = o.context], d, o.result,
                                     f.statements[f.pc].into),
          raised   |-> NoExc]
    ELSE [frame |-> [f EXCEPT !.pc = @ + 1], contexts |-> ctxs, raised |-> NoExc]

Iterate(f, ctxs, d, o) ==
    IF o.raised = NoExc
    THEN [frame    |-> [f EXCEPT !.pc = @ + 1, !.result = o.result],
          contexts |-> UpdateContext([ctxs EXCEPT ![d] = o.context], d, o.result,
                                     f.statements[f.pc].into),
          raised   |-> NoExc]
    ELSE [frame    |-> f,
          contexts |-> ctxs,
          raised   |-> Except(o.raised, f.source, f.statements[f.pc].line)]

\* run_async, finally: os.chdir(old_cwd)
FinallyOmitted(f) == cwd

Finally(f) == f.old_cwd

\* run_async: return result
ReturnIt(f, context) == context.frames["it"]

Return(f, context) == f.result

(***************************************************************************)
(* What the callers of Script hand in.                                     *)
(***************************************************************************)
\* the statements an embedding program can put in a Program, with their alias
ApiCommands ==
    {[statement |-> Create("CSV", "T1"), into |-> "a"],
     [statement |-> Put("it"), into |-> "a"],
     [statement |-> Put("a"), into |-> NoAlias],
     [statement |-> PrintStatement("it", Literal(<<"x">>)), into |-> NoAlias],
     [statement |-> PrintStatement("it", Literal(<<"x">>)), into |-> "a"],
     [statement |-> Read(Literal(<<"T3.csv">>), "it"), into |-> NoAlias],
     [statement |-> Connect("db", "sqlite://", "SQL"), into |-> NoAlias],
     [statement |-> Quit, into |-> NoAlias],
     [statement |-> Run("it", <<Literal(SubPql)>>), into |-> NoAlias],
     [statement |-> Run("it", <<Literal(NestPql)>>), into |-> "a"],
     [statement |-> Run("it", <<Literal(LeafPql)>>), into |-> NoAlias]}

ApiPrograms ==
    UNION {{[i \in 1..n |-> [line |-> i, statement |-> cs[i].statement, into |-> cs[i].into]] :
               cs \in [1..n -> ApiCommands]} : n \in 0..MaxStmts}

\* the source an embedding program names in loads(text, source=...)
ApiSources == {NoSource, <<"jobs", "main.pql">>, <<"gone", "main.pql">>}

\* the lines a user types at the prompt
ConsoleLines ==
    {Command("CREATE", "a", <<"T1">>, NoAlias),
     Command("CREATE", "a", << >>, NoAlias),
     Command("PUT", "", << >>, "a"),
     Command("PUT", "a", << >>, NoAlias),
     Command("PRINT", "", <<"x">>, NoAlias),
     Command("PRINT", "", <<"x">>, "a"),
     Command("READ", "", <<"T3.csv">>, NoAlias),
     Command("CONNECT", "db", <<"sqlite://">>, NoAlias),
     Command("QUIT", "", << >>, NoAlias),
     Command("RUN", "", SubPql, NoAlias),
     Command("RUN", "", NestPql, "a"),
     Command("RUN", "", LeafPql, NoAlias),
     Command("?", "", << >>, NoAlias)}

\* the command lines of the cli: the script to run
CliArgs == {<<SubPql>>, <<NestPql>>, <<LeafPql>>}

(***************************************************************************)
(* State                                                                   *)
(***************************************************************************)
NoRet == [set |-> FALSE, value |-> None]

\* event: a statement's execute began (exec) or raised (raised) in the last step,
\* what the step opened or loaded (io), and whether it built a Context (made)
Quiet == [exec |-> FALSE, raised |-> FALSE, io |-> "none", made |-> FALSE]

\* a run_async call that has not yet run its first line
Call(s) == [statements |-> s.statements, source |-> s.source, pc |-> 1,
            old_cwd |-> << >>, result |-> None, phase |-> "call"]

Driver(mode, at, args) ==
    [mode |-> mode, at |-> at, args |-> args, lines |-> 0, input |-> << >>,
     outcome |-> "none", result |-> None, error |-> NoExc]

\* main.py cli with arguments: Script(context=Context(argv=args))
InitCli ==
    \E args \in CliArgs :
        /\ driver = Driver("cli", "start", args)
        /\ contexts = <<ContextInit(NoContext, EmptyDict, args, AllAllowed)>>
        /\ script = NewScript

\* main.py repl: Script(context=Context(env={**os.environ}))
InitRepl ==
    /\ driver = Driver("repl", "prompt", << >>)
    /\ contexts = <<ContextInit(NoContext, OsEnviron, << >>, AllAllowed)>>
    /\ script = NewScript

\* an embedding program: a Context with the permissions it chooses and a Script
\* whose statements it supplies
InitApi ==
    \E given \in Flags, statements \in ApiPrograms, source \in ApiSources :
        /\ driver = Driver("api", "ready", << >>)
        /\ contexts = <<ContextInit(NoContext, EmptyDict, << >>, given)>>
        /\ script = [statements |-> statements, source |-> source]

Init ==
    /\ InitCli \/ InitRepl \/ InitApi
    /\ stack = << >>
    /\ cwd = StartDir
    /\ exc = NoExc
    /\ ret = NoRet
    /\ lexer = [lineno |-> 1, state |-> "INITIAL"]
    /\ event = Quiet

(***************************************************************************)
(* The callers of Script                                                   *)
(***************************************************************************)
\* cli: script.load(args[0]); script.run() inside try / except Exception
CliLoad ==
    /\ driver.mode = "cli" /\ driver.at = "start"
    /\ LET ld == Load(script, driver.args[1], cwd, lexer)
       IN  /\ lexer' = ld.lexer
           /\ script' = [statements |-> ld.statements, source |-> ld.source]
           /\ IF ld.raised = NoExc
              THEN /\ stack' = <<Call(script')>>
                   /\ driver' = [driver EXCEPT !.at = "running"]
              ELSE /\ stack' = stack
                   /\ driver' = [driver EXCEPT !.at = "finished", !.outcome = "raised",
                                               !.error = ld.raised]
    /\ event' = [Quiet EXCEPT !.io = "load"]
    /\ UNCHANGED <<contexts, cwd, exc, ret>>

\* repl: script.loads(console.input(...)); result = await script.run_async()
ReplInput ==
    /\ driver.mode = "repl" /\ driver.at = "prompt" /\ driver.lines < MaxLines
    /\ \E line \in ConsoleLines :
         LET ld == Loads(script, <<line>>, NoSource, lexer, 0)
         IN  /\ lexer' = ld.lexer
             /\ script' = [statements |-> ld.statements, source |-> ld.source]
             /\ IF ld.raised = NoExc
                THEN /\ stack' = <<Call(script')>>
                     /\ driver' = [driver EXCEPT !.at = "running", !.lines = @ + 1,
                                                 !.input = <<line>>,
                                                 !.outcome = "none", !.result = None,
                                                 !.error = NoExc]
                ELSE /\ stack' = stack
                     /\ driver' = [driver EXCEPT !.lines = @ + 1, !.input = <<line>>,
                                                 !.outcome = "raised",
                                                 !.result = None, !.error = ld.raised]
    /\ event' = Quiet
    /\ UNCHANGED <<contexts, cwd, exc, ret>>

\* an embedding program calls script.run()
ApiRun ==
    /\ driver.mode = "api" /\ driver.at = "ready"
    /\ stack' = <<Call(script)>>
    /\ driver' = [driver EXCEPT !.at = "running"]
    /\ event' = Quiet
    /\ UNCHANGED <<contexts, script, cwd, exc, ret, lexer>>

\* run_async returned to the caller of the Script
DriverReturn ==
    /\ stack = << >> /\ ret.set
    /\ driver' = [driver EXCEPT !.at = IF driver.mode = "repl" THEN "prompt" ELSE "finished",
                                !.outcome = "returned", !.result = ret.value]
    /\ ret' = NoRet
    /\ event' = Quiet
    /\ UNCHANGED <<contexts, stack, script, cwd, exc, lexer>>

\* run_async raised to the caller of the Script: repl and cli catch Exception,
\* SystemExit ends the process
DriverRaise ==
    /\ stack = << >> /\ exc # NoExc
    /\ driver' = [driver EXCEPT
                    !.at = IF ~IsException(exc) THEN "exited"
                           ELSE IF driver.mode = "repl" THEN "prompt" ELSE "finished",
                    !.outcome = IF IsException(exc) THEN "raised" ELSE "exit",
                    !.error = exc]
    /\ exc' = NoExc
    /\ event' = Quiet
    /\ UNCHANGED <<contexts, stack, script, cwd, ret, lexer>>

(***************************************************************************)
(* run_async                                                               *)
(***************************************************************************)
Depth == Len(stack)

Top == stack[Depth]

\* the call at the top of the stack is between two statements
InLoop == Depth > 0 /\ Top.phase = "loop" /\ exc = NoExc /\ ~ret.set

AtStatement(cls) ==
    /\ InLoop
    /\ Top.pc <= Len(Top.statements)
    /\ Top.statements[Top.pc].statement.cls = cls

Current == Top.statements[Top.pc].statement

\* the Contexts once the Script of a finished sub-script, and its Context with
\* it, have gone out of scope in Run.run
Own(ctxs) == SubSeq(ctxs, 1, Depth)

\* old_cwd = os.getcwd(); os.chdir(os.path.dirname(self.source)) when there is one
RunAsyncEnter ==
    /\ Depth > 0 /\ Top.phase = "call"
    /\ LET path == IF Top.source # NoSource THEN Dirname(Top.source) ELSE << >>
           f    == [Top EXCEPT !.old_cwd = cwd, !.phase = "loop"]
       IN  IF path = << >>
           THEN /\ stack' = [stack EXCEPT ![Depth] = f]
                /\ UNCHANGED <<contexts, cwd, exc>>
           ELSE IF Resolve(cwd, path) \in Directories
           THEN /\ stack' = [stack EXCEPT ![Depth] = f]
                /\ cwd' = Resolve(cwd, path)
                /\ UNCHANGED <<contexts, exc>>
           ELSE /\ exc' = Raise("FileNotFoundError", "No such directory")
                /\ cwd' = Finally(f)
                /\ stack' = SubSeq(stack, 1, Depth - 1)
                /\ UNCHANGED contexts
    /\ event' = Quiet
    /\ UNCHANGED <<script, ret, lexer, driver>>

\* one pass of the loop over a statement whose execute did o
Pass(o) ==
    LET it == Iterate(Top, contexts, Depth, o)
    IN  /\ event' = [exec |-> TRUE, raised |-> o.raised # NoExc, io |-> o.io, made |-> FALSE]
        /\ contexts' = it.contexts
        /\ IF it.raised = NoExc
           THEN /\ stack' = [stack EXCEPT ![Depth] = it.frame]
                /\ UNCHANGED <<cwd, exc>>
           ELSE /\ exc' = it.raised
                /\ cwd' = Finally(Top)
                /\ stack' = SubSeq(stack, 1, Depth - 1)
        /\ UNCHANGED <<script, ret, lexer, driver>>

ExecConnect ==
    /\ AtStatement("Connect")
    /\ \E ok \in BOOLEAN : Pass(ConnectExecute(Current, contexts[Depth], ok))

ExecCreate ==
    /\ AtStatement("Create")
    /\ Pass(CreateExecute(Current, contexts[Depth]))

ExecPrint ==
    /\ AtStatement("Print")
    /\ Pass(PrintExecute(Current, contexts[Depth]))

ExecPut ==
    /\ AtStatement("Put")
    /\ Pass(PutExecute(Current, contexts[Depth]))

ExecQuit ==
    /\ AtStatement("Quit")
    /\ Pass(QuitExecute(Current, contexts[Depth]))

ExecRead ==
    /\ AtStatement("Read")
    /\ \E ok \in BOOLEAN : Pass(ReadExecute(Current, contexts[Depth], ok))

\* Run.execute: when the sub-script is loaded its run_async is awaited
\* r: what Run.execute did up to the await
RunCalled(r) ==
    /\ event' = [exec |-> TRUE, raised |-> r.raised # NoExc, io |-> r.io,
                 made |-> r.made]
    /\ lexer' = r.lexer
    /\ IF r.raised = NoExc
       THEN /\ stack' = Append(stack, Call(r.script))
            /\ contexts' = Append(contexts, r.child)
            /\ UNCHANGED <<cwd, exc>>
       ELSE LET it == Iterate(Top, contexts, Depth,
                              Raised(contexts[Depth], r.raised, r.io))
            IN  /\ contexts' = it.contexts
                /\ IF it.raised = NoExc
                   THEN /\ stack' = [stack EXCEPT ![Depth] = it.frame]
                        /\ UNCHANGED <<cwd, exc>>
                   ELSE /\ exc' = it.raised
                        /\ cwd' = Finally(Top)
                        /\ stack' = SubSeq(stack, 1, Depth - 1)
    /\ UNCHANGED <<script, ret, driver>>

ExecRun ==
    /\ AtStatement("Run")
    /\ RunCalled(RunExecute(Current, contexts[Depth], cwd, lexer))

\* the awaited run_async of the sub-script returned: the rest of Run.execute and
\* of the pass of the loop
RunAwaited ==
    /\ Depth > 0 /\ ret.set
    /\ LET it == Iterate(Top, Own(contexts), Depth,
                         Returned(contexts[Depth], RunResult(ret.value), "none"))
       IN  /\ stack' = [stack EXCEPT ![Depth] = it.frame]
           /\ contexts' = it.contexts
    /\ ret' = NoRet
    /\ event' = Quiet
    /\ UNCHANGED <<script, cwd, exc, lexer, driver>>

\* the awaited run_async of the sub-script raised: the except clauses and the
\* finally of the invoking call
RunRaised ==
    /\ Depth > 0 /\ exc # NoExc
    /\ LET it == Iterate(Top, Own(contexts), Depth, Raised(contexts[Depth], exc, "none"))
       IN  /\ contexts' = it.contexts
           /\ IF it.raised = NoExc
              THEN /\ stack' = [stack EXCEPT ![Depth] = it.frame]
                   /\ exc' = NoExc
                   /\ UNCHANGED cwd
              ELSE /\ exc' = it.raised
                   /\ cwd' = Finally(Top)
                   /\ stack' = SubSeq(stack, 1, Depth - 1)
    /\ event' = [Quiet EXCEPT !.raised = TRUE]
    /\ UNCHANGED <<script, ret, lexer, driver>>

\* the loop is over: return result, through finally
RunAsyncReturn ==
    /\ InLoop /\ Top.pc > Len(Top.statements)
    /\ ret' = [set |-> TRUE, value |-> Return(Top, contexts[Depth])]
    /\ cwd' = Finally(Top)
    /\ stack' = SubSeq(stack, 1, Depth - 1)
    /\ event' = Quiet
    /\ UNCHANGED <<contexts, script, exc, lexer, driver>>

Next ==
    \/ CliLoad
    \/ ReplInput
    \/ ApiRun
    \/ DriverReturn
    \/ DriverRaise
    \/ RunAsyncEnter
    \/ ExecConnect
    \/ ExecCreate
    \/ ExecPrint
    \/ ExecPut
    \/ ExecQuit
    \/ ExecRead
    \/ ExecRun
    \/ RunAwaited
    \/ RunRaised
    \/ RunAsyncReturn

Spec == Init /\ [][Next]_vars

(***************************************************************************)
(* Contexts built directly through the constructor, parent to child.       *)
(***************************************************************************)
InitContext ==
    /\ \E given \in Flags :
         contexts = <<ContextInit(NoContext, OsEnviron, << >>, given)>>
    /\ driver = Driver("api", "idle", << >>)
    /\ script = NewScript
    /\ stack = << >>
    /\ cwd = StartDir
    /\ exc = NoExc
    /\ ret = NoRet
    /\ lexer = [lineno |-> 1, state |-> "INITIAL"]
    /\ event = Quiet

\* Context(parent_context=..., allow_read=..., allow_connect=..., allow_run=...)
NewContext ==
    /\ Len(contexts) < MaxContexts
    /\ \E given \in Flags :
         contexts' = Append(contexts,
                            ContextInit(contexts[Len(contexts)], EmptyDict, << >>, given))
    /\ event' = [Quiet EXCEPT !.made = TRUE]
    /\ UNCHANGED <<stack, script, cwd, exc, ret, lexer, driver>>

\* the innermost Context goes out of scope
DropContext ==
    /\ Len(contexts) > 1
    /\ contexts' = SubSeq(contexts, 1, Len(contexts) - 1)
    /\ event' = Quiet
    /\ UNCHANGED <<stack, script, cwd, exc, ret, lexer, driver>>

NextContext == NewContext \/ DropContext

SpecContext == InitContext /\ [][NextContext]_vars

(***************************************************************************)
(* Sources registered and closed through the Context API.  A DataSource is *)
(* an object: driver.input[id] counts the close() calls the object with     *)
(* that id has had.  driver.args and driver.lines are the name and the      *)
(* Context of the last call.                                                *)
(***************************************************************************)
MaxSources == 2

Aliases == {"db", "dw"}

\* the id-th DataSource constructed
Object(source, id) == [kind |-> source.kind, url |-> source.url, id |-> id]

\* DataSource.close() on the object
SourceClose(heap, source) == [heap EXCEPT ![source.id] = @ + 1]

\* Context.close: the KeyError of sources[name] comes before anything is done
Close(heap, context, name) ==
    IF name \notin DOMAIN context.sources
    THEN [raised |-> KeyError(name), context |-> context, heap |-> heap]
    ELSE [raised |-> NoExc,
          context |-> [context EXCEPT !.sources = DictDel(@, name)],
          heap |-> SourceClose(heap, context.sources[name])]

InitSources ==
    /\ contexts = <<ContextInit(NoContext, OsEnviron, << >>, AllAllowed)>>
    /\ driver = Driver("api", "idle", << >>)
    /\ script = NewScript
    /\ stack = << >>
    /\ cwd = StartDir
    /\ exc = NoExc
    /\ ret = NoRet
    /\ lexer = [lineno |-> 1, state |-> "INITIAL"]
    /\ event = Quiet

\* context.register(name, SQLSource(url)) on any Context alive
ApiRegister ==
    /\ Len(driver.input) < MaxSources
    /\ \E i \in 1..Len(contexts), name \in Aliases :
         /\ contexts' = [contexts EXCEPT ![i] =
                           Register(@, name, Object(SQLSource(<<"sqlite://">>),
                                                    Len(driver.input) + 1))]
         /\ driver' = [driver EXCEPT !.input = Append(@, 0), !.args = <<name>>, !.lines = i]
    /\ exc' = NoExc
    /\ event' = [Quiet EXCEPT !.io = "register"]
    /\ UNCHANGED <<stack, script, cwd, ret, lexer>>

Closed(o, i, name) ==
    /\ contexts' = [contexts EXCEPT ![i] = o.context]
    /\ driver' = [driver EXCEPT !.input = o.heap, !.args = <<name>>, !.lines = i]
    /\ exc' = o.raised

\* context.close(name) on any Context alive
ApiClose ==
    /\ \E i \in 1..Len(contexts), name \in Aliases :
         Closed(Close(driver.input, contexts[i], name), i, name)
    /\ event' = [Quiet EXCEPT !.io = "close"]
    /\ UNCHANGED <<stack, script, cwd, ret, lexer>>

\* Context(parent_context=context)
ApiChild ==
    /\ Len(contexts) < MaxContexts
    /\ contexts' = Append(contexts,
                          ContextInit(contexts[Len(contexts)], EmptyDict, << >>, AllAllowed))
    /\ exc' = NoExc
    /\ event' = [Quiet EXCEPT !.made = TRUE]
    /\ UNCHANGED <<stack, script, cwd, ret, lexer, driver>>

NextSources == ApiRegister \/ ApiClose \/ ApiChild

SpecSources == InitSources /\ [][NextSources]_vars

(***************************************************************************)
(* The lexer (lexer.py) on characters.  A text is a sequence of one-        *)
(* character strings.  Here `lexer` also holds the text given to            *)
(* lexer.input and the position in it, and block_end, the module's global;  *)
(* `ret` holds the token the last call of lexer.token() returned and `exc`  *)
(* the error it raised.                                                     *)
(***************************************************************************)
\* characters of a heredoc's body
MaxBody == 5

Letters == {"T", "x"}

Chars == Letters \cup {"<", " ", "\n"}

NotNewline == Chars \ {"\n"}

\* the characters str.strip() removes
Whitespace == {" ", "\n"}

RECURSIVE LStrip(_)
LStrip(s) == IF s # << >> /\ s[1] \in Whitespace THEN LStrip(Tail(s)) ELSE s

RECURSIVE RStrip(_)
RStrip(s) ==
    IF s # << >> /\ s[Len(s)] \in Whitespace THEN RStrip(SubSeq(s, 1, Len(s) - 1)) ELSE s

\* str.strip
Strip(s) == RStrip(LStrip(s))

\* str.count of one character
Count(s, c) == Cardinality({i \in 1..Len(s) : s[i] = c})

\* where a greedy match of characters of `set` that starts at p ends: the first
\* position from p on that holds no character of the set
RECURSIVE Span(_, _, _)
Span(s, p, set) == IF p <= Len(s) /\ s[p] \in set THEN Span(s, p + 1, set) ELSE p

\* block_end = None
NoBlockEnd == <<"None">>

\* lexer.token() at the end of the text
NoToken == [type |-> "None", value |-> << >>, lineno |-> 0]

LexToken(type, value, lineno) == [type |-> type, value |-> value, lineno |-> lineno]

\* t_block_RAW, the test for the end of the block
BlockEndsExact(value, block_end) == value = block_end \o <<"\n">>

BlockEnds(value, block_end) == Strip(value) = block_end

\* t_block_RAW, and t_block_error where the rule does not match
BlockToken(lx) ==
    LET s == lx.lexdata
        p == lx.lexpos
        e == Span(s, p, NotNewline)
        f == Span(s, e, {"\n"})
        value == SubSeq(s, p, f - 1)
    IN  IF f > e
        THEN IF BlockEnds(value, lx.block_end)
             THEN [lexer  |-> [lx EXCEPT !.lexpos = f, !.lineno = @ + Count(value, "\n"),
                                         !.state = "INITIAL", !.block_end = NoBlockEnd],
                   tok    |-> LexToken("END", value, lx.lineno),
                   raised |-> NoExc]
             ELSE [lexer  |-> [lx EXCEPT !.lexpos = f, !.lineno = @ + Count(value, "\n")],
                   tok    |-> LexToken("RAW", value, lx.lineno),
                   raised |-> NoExc]
        ELSE [lexer  |-> [lx EXCEPT !.state = "INITIAL"],
              tok    |-> NoToken,
              raised |-> Raise("SyntaxError", "Syntax error")]

\* t_BLOCK matches at p: << and at least one more character of the line
AtBlock(s, p) == p + 2 <= Len(s) /\ s[p] = "<" /\ s[p + 1] = "<" /\ s[p + 2] # "\n"

\* one call of lexer.token(): t_ignore, t_END, t_ID, t_BLOCK, t_LT in the
\* initial state, the block rules in the block state
RECURSIVE Token(_)
Token(lx) ==
    LET s == lx.lexdata
        p == lx.lexpos
    IN  IF p > Len(s)
        THEN [lexer |-> lx, tok |-> NoToken, raised |-> NoExc]
        ELSE IF lx.state = "block" THEN BlockToken(lx)
        ELSE IF s[p] = " " THEN Token([lx EXCEPT !.lexpos = p + 1])
        ELSE IF s[p] = "\n"
        THEN LET f == Span(s, p, {"\n"})
             IN  [lexer  |-> [lx EXCEPT !.lexpos = f, !.lineno = @ + (f - p)],
                  tok    |-> LexToken("END", SubSeq(s, p, f - 1), lx.lineno),
                  raised |-> NoExc]
        ELSE IF s[p] \in Letters
        THEN LET f == Span(s, p, Letters)
             IN  [lexer  |-> [lx EXCEPT !.lexpos = f],
                  tok    |-> LexToken("ID", SubSeq(s, p, f - 1), lx.lineno),
                  raised |-> NoExc]
        ELSE IF AtBlock(s, p)
        THEN LET e == Span(s, p, NotNewline)
             IN  Token([lx EXCEPT !.lexpos = e, !.state = "block",
                                  !.block_end = Strip(SubSeq(s, p + 2, e - 1))])
        ELSE [lexer  |-> [lx EXCEPT !.lexpos = p + 1],
              tok    |-> LexToken("LT", <<"<">>, lx.lineno),
              raised |-> NoExc]

\* the texts lexed: a line that opens a heredoc, or none, and what follows it
Openers == {<<"<", "<", "T">>, <<"<", "<", " ", "T", " ">>, <<"<", "<", " ">>, << >>}

Bodies == UNION {[1..n -> Chars] : n \in 0..MaxBody}

\* lexer = lex.lex(); lexer.input(text)
InitLexer ==
    /\ \E opener \in Openers, body \in Bodies :
         lexer = [lineno |-> 1, state |-> "INITIAL", block_end |-> NoBlockEnd,
                  lexdata |-> opener \o body, lexpos |-> 1]
    /\ contexts = <<ContextInit(NoContext, EmptyDict, << >>, AllAllowed)>>
    /\ driver = Driver("api", "idle", << >>)
    /\ script = NewScript
    /\ stack = << >>
    /\ cwd = StartDir
    /\ exc = NoExc
    /\ ret = NoRet
    /\ event = Quiet

\* the text is not used up and no call has raised
Lexing == exc = NoExc /\ ret.value # NoToken

\* lexer.token() returns a token, or None at the end of the text
LexerToken ==
    /\ Lexing
    /\ Token(lexer).raised = NoExc
    /\ lexer' = Token(lexer).lexer
    /\ ret' = [set |-> TRUE, value |-> Token(lexer).tok]
    /\ event' = Quiet
    /\ UNCHANGED <<contexts, stack, script, cwd, exc, driver>>

\* lexer.token() raises
LexerError ==
    /\ Lexing
    /\ Token(lexer).raised # NoExc
    /\ lexer' = Token(lexer).lexer
    /\ exc' = Token(lexer).raised
    /\ event' = [Quiet EXCEPT !.raised = TRUE]
    /\ UNCHANGED <<contexts, stack, script, cwd, ret, driver>>

NextLexer == LexerToken \/ LexerError

SpecLexer == InitLexer /\ [][NextLexer]_vars

(***************************************************************************)
(* Quoted literals: t_TEMPLATE (lexer.py) and string.Template, which it     *)
(* and Template.evaluate (term.py) call.  Here `lexer` holds the literal    *)
(* as lexdata, `ret` the token returned and then the value its term         *)
(* evaluates to.                                                            *)
(***************************************************************************)
\* characters between the quotes of a literal
MaxText == 4

Quotes == {"\"", "'"}

\* [_a-z] and [_a-z0-9] of string.Template's idpattern
IdStart == {"a"}

IdChars == {"a", "5"}

TextChars == IdChars \cup {"$", "{", "}"}

\* what string.Template's pattern matches at a $ at position i: the kind of the
\* match, the position after it, and the name of a placeholder
Placeholder(s, i) ==
    IF i + 1 <= Len(s) /\ s[i + 1] = "$"
    THEN [kind |-> "escaped", end |-> i + 2, name |-> << >>]
    ELSE IF i + 1 <= Len(s) /\ s[i + 1] \in IdStart
    THEN [kind |-> "named", end |-> Span(s, i + 1, IdChars),
          name |-> SubSeq(s, i + 1, Span(s, i + 1, IdChars) - 1)]
    ELSE IF /\ i + 2 <= Len(s) /\ s[i + 1] = "{" /\ s[i + 2] \in IdStart
            /\ Span(s, i + 2, IdChars) <= Len(s) /\ s[Span(s, i + 2, IdChars)] = "}"
    THEN [kind |-> "braced", end |-> Span(s, i + 2, IdChars) + 1,
          name |-> SubSeq(s, i + 2, Span(s, i + 2, IdChars) - 1)]
    ELSE [kind |-> "invalid", end |-> i + 1, name |-> << >>]

\* string.Template(s).substitute(mapping) and, with safe, .safe_substitute(mapping)
\* from position i on: the text, or the exception the first failing match raises
RECURSIVE Substitute(_, _, _, _)
Substitute(s, i, mapping, safe) ==
    IF i > Len(s) THEN [raised |-> NoExc, value |-> << >>]
    ELSE LET ph   == Placeholder(s, i)
             next == IF s[i] # "$" THEN i + 1 ELSE ph.end
             this == IF s[i] # "$" THEN [raised |-> NoExc, value |-> <<s[i]>>]
                     ELSE IF ph.kind = "escaped" THEN [raised |-> NoExc, value |-> <<"$">>]
                     ELSE IF ph.kind = "invalid"
                     THEN IF safe THEN [raised |-> NoExc, value |-> <<"$">>]
                          ELSE [raised |-> Raise("ValueError", "Invalid placeholder in string"),
                                value |-> << >>]
                     ELSE IF ph.name \in DOMAIN mapping
                     THEN [raised |-> NoExc, value |-> mapping[ph.name]]
                     ELSE IF safe THEN [raised |-> NoExc, value |-> SubSeq(s, i, ph.end - 1)]
                     ELSE [raised |-> Raise("KeyError", "name"), value |-> << >>]
             rest == Substitute(s, next, mapping, safe)
         IN  IF this.raised # NoExc THEN this
             ELSE IF rest.raised # NoExc THEN rest
             ELSE [raised |-> NoExc, value |-> this.value \o rest.value]

\* substitute() without arguments
NoMapping == [name \in {} |-> << >>]

\* os.environ as Template.evaluate hands it to safe_substitute
Environ == [name \in {<<"a">>} |-> <<"u">>]

\* the text between the quotes: t.value[1:-1]
Unquote(literal) == SubSeq(literal, 2, Len(literal) - 1)

\* t_TEMPLATE: except KeyError only
TTemplate(literal) ==
    LET r == Substitute(Unquote(literal), 1, NoMapping, FALSE)
    IN  IF r.raised = NoExc
        THEN [raised |-> NoExc, tok |-> LexToken("STRING", r.value, 1)]
        ELSE IF r.raised.type = "KeyError"
        THEN [raised |-> NoExc, tok |-> LexToken("TEMPLATE", Unquote(literal), 1)]
        ELSE [raised |-> r.raised, tok |-> NoToken]

\* Template.evaluate against an empty table
TemplateEvaluate(template) == Substitute(template, 1, Environ, TRUE).value

\* p_literal / p_template and the evaluate of the term they build
TermValue(tok) ==
    IF tok.type = "STRING" THEN Evaluate(Literal(tok.value), EmptyFrame)
    ELSE TemplateEvaluate(tok.value)

Texts == UNION {[1..n -> TextChars] : n \in 0..MaxText}

InitTemplate ==
    /\ \E quote \in Quotes, text \in Texts :
         lexer = [lineno |-> 1, state |-> "INITIAL", block_end |-> NoBlockEnd,
                  lexdata |-> <<quote>> \o text \o <<quote>>, lexpos |-> 1]
    /\ contexts = <<ContextInit(NoContext, EmptyDict, << >>, AllAllowed)>>
    /\ driver = Driver("api", "idle", << >>)
    /\ script = NewScript
    /\ stack = << >>
    /\ cwd = StartDir
    /\ exc = NoExc
    /\ ret = NoRet
    /\ event = Quiet

\* lexer.token() at a quoted literal returns its token
TemplateToken ==
    /\ exc = NoExc /\ ~ret.set
    /\ TTemplate(lexer.lexdata).raised = NoExc
    /\ ret' = [set |-> TRUE, value |-> TTemplate(lexer.lexdata).tok]
    /\ lexer' = [lexer EXCEPT !.lexpos = Len(lexer.lexdata) + 1]
    /\ event' = Quiet
    /\ UNCHANGED <<contexts, stack, script, cwd, exc, driver>>

\* lexer.token() at a quoted literal raises
TemplateError ==
    /\ exc = NoExc /\ ~ret.set
    /\ TTemplate(lexer.lexdata).raised # NoExc
    /\ exc' = TTemplate(lexer.lexdata).raised
    /\ event' = [Quiet EXCEPT !.raised = TRUE]
    /\ UNCHANGED <<contexts, stack, script, cwd, ret, lexer, driver>>

\* the term of the token is evaluated
TermEvaluate ==
    /\ ret.set /\ ret.value.type \in {"STRING", "TEMPLATE"}
    /\ ret' = [set |-> TRUE, value |-> LexToken("value", TermValue(ret.value), 1)]
    /\ event' = [Quiet EXCEPT !.exec = TRUE]
    /\ UNCHANGED <<contexts, stack, script, cwd, exc, lexer, driver>>

NextTemplate == TemplateToken \/ TemplateError \/ TermEvaluate

SpecTemplate == InitTemplate /\ [][NextTemplate]_vars

(***************************************************************************)
(* SORT (statement.py).  Here a table is a sequence of rows; a row holds    *)
(* its columns k and j and `row`, its index label, which sort_values keeps. *)
(***************************************************************************)
\* rows of a table
MaxRows == 3

\* SORT statements run one after the other
MaxSorts == 2

Values == {1, 2}

Frames == UNION {[1..n -> [k : Values, j : Values]] : n \in 0..MaxRows}

\* pd.DataFrame with the default index
DataFrame(rows) == [i \in 1..Len(rows) |-> [k |-> rows[i].k, j |-> rows[i].j, row |-> i]]

\* df.columns[0]
FirstColumn == "k"

\* the orderings p_order / p_order_dir build: (column, ascending)
Orderings ==
    {<< >>, <<<<"k", TRUE>>>>, <<<<"k", FALSE>>>>, <<<<"j", TRUE>>>>,
     <<<<"k", TRUE>>, <<"j", FALSE>>>>, <<<<"j", FALSE>>, <<"k", TRUE>>>>}

Sort(table, by) == [cls |-> "Sort", table |-> table, by |-> by]

\* row a comes strictly before row b under the keys from the n-th on
RECURSIVE Precedes(_, _, _, _, _)
Precedes(a, b, columns, ascending, n) ==
    IF n > Len(columns) THEN FALSE
    ELSE IF a[columns[n]] # b[columns[n]]
         THEN IF ascending[n] THEN a[columns[n]] < b[columns[n]] ELSE a[columns[n]] > b[columns[n]]
         ELSE Precedes(a, b, columns, ascending, n + 1)

Permutations(n) == {p \in [1..n -> 1..n] : \A i, j \in 1..n : p[i] = p[j] => i = j}

\* the orders a sort may give the rows: all that put no row after one it
\* precedes, and for a stable sort the one of them that keeps ties in order
Orders(df, columns, ascending, stable) ==
    {p \in Permutations(Len(df)) :
        \A i, j \in 1..Len(df) :
            i < j => /\ ~Precedes(df[p[j]], df[p[i]], columns, ascending, 1)
                     /\ (stable /\ ~Precedes(df[p[i]], df[p[j]], columns, ascending, 1))
                            => p[i] < p[j]}

\* df.sort_values(by=columns, ascending=ascending): kind is left at its default,
\* quicksort, which is not stable and is what sorts a single key; several keys
\* are sorted by a lexsort, which is
SortValues(df, columns, ascending) ==
    {[i \in 1..Len(df) |-> df[p[i]]] :
        p \in Orders(df, columns, ascending, Len(columns) > 1)}

\* Sort.execute: the tables it may return
SortExecute(self, context) ==
    LET df == context.frames[self.table]
        by == IF Len(self.by) = 0 THEN <<<<FirstColumn, TRUE>>>> ELSE self.by
        columns   == [n \in 1..Len(by) |-> by[n][1]]
        ascending == [n \in 1..Len(by) |-> by[n][2]]
    IN  SortValues(df, columns, ascending)

InitSort ==
    /\ \E rows \in Frames, by \in Orderings :
         /\ contexts = SetFrame(<<ContextInit(NoContext, EmptyDict, << >>, AllAllowed)>>,
                                1, "it", DataFrame(rows))
         /\ script = [statements |-> <<[line |-> 1, statement |-> Sort("it", by),
                                        into |-> NoAlias]>>,
                      source |-> NoSource]
    /\ driver = Driver("api", "running", << >>)
    /\ stack = << >>
    /\ cwd = StartDir
    /\ exc = NoExc
    /\ ret = NoRet
    /\ lexer = [lineno |-> 1, state |-> "INITIAL"]
    /\ event = Quiet

\* the driver runs the SORT statement: result = statement.execute(context);
\* a SORT always returns a table, so context.it = result
ExecSort ==
    /\ driver.lines < MaxSorts
    /\ \E result \in SortExecute(script.statements[1].statement, contexts[1]) :
         contexts' = SetFrame(contexts, 1, "it", result)
    /\ driver' = [driver EXCEPT !.lines = @ + 1]
    /\ event' = [Quiet EXCEPT !.exec = TRUE]
    /\ UNCHANGED <<stack, script, cwd, exc, ret, lexer>>

NextSort == ExecSort

SpecSort == InitSort /\ [][NextSort]_vars

(***************************************************************************)
(* SELECT and FILTER (statement.py, utils.py)                               *)
(***************************************************************************)
\* SELECT and FILTER statements run one after the other
MaxSelects == 2

\* pd.Series(values): the default index 0, 1, ...
RangeIndex(n) == [i \in 1..n |-> i - 1]

\* the value a Series has at an index label, NaN where it has none
AtLabel(series, label) ==
    IF \E i \in 1..Len(series.index) : series.index[i] = label
    THEN series.values[CHOOSE i \in 1..Len(series.index) : series.index[i] = label]
    ELSE NaN

\* result[col] = series: a frame without an index takes the one of the
\* series, any other aligns the series to its own index by label
SetItem(result, col, series) ==
    LET index  == IF Len(result.index) = 0 THEN series.index ELSE result.index
        column == [name |-> col,
                   values |-> [i \in 1..Len(index) |-> AtLabel(series, index[i])]]
    IN  IF \E c \in 1..Len(result.columns) : result.columns[c].name = col
        THEN Frame(index, [c \in 1..Len(result.columns) |->
                              IF result.columns[c].name = col THEN column
                              ELSE result.columns[c]])
        ELSE Frame(index, Append(result.columns, column))

IsSeries(col) == col.value.kind = "series"

IsScalar(col) == col.value.kind = "scalar"

\* the loop of create_frame over cols, from the n-th on
RECURSIVE AddColumns(_, _, _, _)
AddColumns(result, cols, k, n) ==
    IF k > Len(cols) THEN result
    ELSE AddColumns(SetItem(result, cols[k].name,
                            IF IsSeries(cols[k]) THEN cols[k].value
                            ELSE Series(NoName, RangeIndex(n),
                                        [i \in 1..n |-> cols[k].value.values[1]])),
                    cols, k + 1, n)

\* create_frame(data), data a list of (name, value)
CreateFrame(data) ==
    IF Len(data) = 0 THEN Frame(<< >>, << >>)
    ELSE LET cols   == SelectSeq(data, IsSeries) \o SelectSeq(data, IsScalar)
             n      == IF IsSeries(cols[1]) THEN Len(cols[1].value.values) ELSE 1
             result == AddColumns(Frame(<< >>, << >>), cols, 1, n)
         IN  Frame(result.index,
                   [c \in 1..Len(data) |->
                       result.columns[CHOOSE r \in 1..Len(result.columns) :
                                          result.columns[r].name = data[c].name]])

Expression(term, alias) == [cls |-> "Expression", term |-> term, alias |-> alias]

\* the MUL of an exprlist
Star == [cls |-> "*", term |-> Literal(Integer(0)), alias |-> NoAlias]

Select(table, expressions) == [cls |-> "Select", table |-> table, expressions |-> expressions]

Filter(where, table) == [cls |-> "Filter", where |-> where, table |-> table]

\* f'_{len(columns)}'
Underscore(n) == <<"_0", "_1", "_2", "_3", "_4", "_5">>[n + 1]

\* the loop of Select.execute over self.expressions, from the e-th on;
\* columns is the list of (name, value) so far, or the exception raised
RECURSIVE SelectColumns(_, _, _, _)
SelectColumns(self, df, e, columns) ==
    IF e > Len(self.expressions) THEN [raised |-> NoName, columns |-> columns]
    ELSE LET expr == self.expressions[e]
         IN  IF expr.cls = "*"
             THEN SelectColumns(self, df, e + 1,
                      columns \o [c \in 1..Len(df.columns) |->
                                     [name  |-> df.columns[c].name,
                                      value |-> GetItem(df, df.columns[c].name)]])
             ELSE LET value  == TermValueOn(expr.term, df)
                      column == IF value.kind = "series" /\ value.name # NoName
                                THEN value.name ELSE Underscore(Len(columns))
                  IN  IF value.kind = "raise"
                      THEN [raised |-> value.name, columns |-> columns]
                      ELSE SelectColumns(self, df, e + 1,
                               Append(columns,
                                      [name  |-> IF expr.alias # NoAlias THEN expr.alias
                                                 ELSE column,
                                       value |-> value]))

\* Select.execute
SelectExecute(self, context) ==
    LET made == SelectColumns(self, context.frames[self.table], 1, << >>)
    IN  IF made.raised # NoName
        THEN [raised |-> Raise(made.raised, "column"), result |-> Frame(<< >>, << >>)]
        ELSE [raised |-> NoExc, result |-> CreateFrame(made.columns)]

\* Filter.execute: df[mask] keeps the rows the mask is true at, with their labels
FilterExecute(self, context) ==
    LET df   == context.frames[self.table]
        mask == TermValueOn(self.where, df)
        kept(values) == SelectSeq([i \in 1..Len(values) |-> <<i, values[i]>>],
                                  LAMBDA x : mask.values[x[1]] = Bool(TRUE))
    IN  IF mask.kind # "series"
        THEN [raised |-> Raise("KeyError", "column"), result |-> Frame(<< >>, << >>)]
        ELSE [raised |-> NoExc,
              result |-> Frame([i \in 1..Len(kept(df.index)) |-> kept(df.index)[i][2]],
                               [c \in 1..Len(df.columns) |->
                                   [name   |-> df.columns[c].name,
                                    values |-> [i \in 1..Len(kept(df.index)) |->
                                                   kept(df.columns[c].values)[i][2]]]])]

Ages == {Integer(10), Integer(20)}

Pays == {Integer(1), Integer(2)}

\* the tables a READ gives: columns age and pay under the default index
People ==
    UNION {{Frame(RangeIndex(n), <<[name |-> "age", values |-> ages],
                                   [name |-> "pay", values |-> pays]>>) :
               ages \in [1..n -> Ages], pays \in [1..n -> Pays]} : n \in 0..MaxRows}

Wheres ==
    {BinaryTerm(Column("age"), Literal(Integer(10)), ">"),
     BinaryTerm(Column("pay"), Literal(Integer(1)), "=")}

Selections ==
    {<<Star>>,
     <<Expression(BinaryTerm(Column("age"), Literal(Integer(2)), "*"), "doubled")>>,
     <<Expression(Column("age"), NoAlias), Expression(Literal(Integer(1)), NoAlias)>>,
     <<Expression(Literal(Integer(1)), "one"), Expression(Column("pay"), NoAlias)>>,
     <<Expression(Literal(Integer(1)), NoAlias), Expression(Literal(Integer(2)), "two")>>,
     <<Star, Expression(BinaryTerm(Column("pay"), Column("age"), "+"), NoAlias),
       Expression(Literal(Integer(2)), "age")>>}

InitSelect ==
    /\ \E df \in People :
         contexts = SetFrame(<<ContextInit(NoContext, EmptyDict, << >>, AllAllowed)>>,
                             1, "it", df)
    /\ script = NewScript
    /\ driver = Driver("repl", "prompt", << >>)
    /\ stack = << >>
    /\ cwd = StartDir
    /\ exc = NoExc
    /\ ret = NoRet
    /\ lexer = [lineno |-> 1, state |-> "INITIAL"]
    /\ event = Quiet

\* a line with one statement is loaded and run: result = statement.execute(context);
\* context.it = result, or the exception leaves the context as it is
Executed(statement, done) ==
    /\ script' = [statements |-> <<[line |-> 1, statement |-> statement, into |-> NoAlias]>>,
                  source |-> NoSource]
    /\ contexts' = IF done.raised = NoExc THEN SetFrame(contexts, 1, "it", done.result)
                   ELSE contexts
    /\ exc' = done.raised
    /\ driver' = [driver EXCEPT !.lines = @ + 1]
    /\ event' = [Quiet EXCEPT !.exec = TRUE, !.raised = done.raised # NoExc]
    /\ UNCHANGED <<stack, cwd, ret, lexer>>

ExecFilter ==
    /\ driver.lines < MaxSelects
    /\ exc = NoExc
    /\ \E where \in Wheres :
          Executed(Filter(where, "it"), FilterExecute(Filter(where, "it"), contexts[1]))

ExecSelect ==
    /\ driver.lines < MaxSelects
    /\ exc = NoExc
    /\ \E expressions \in Selections :
          Executed(Select("it", expressions),
                   SelectExecute(Select("it", expressions), contexts[1]))

NextSelect == ExecFilter \/ ExecSelect

SpecSelect == InitSelect /\ [][NextSelect]_vars

(***************************************************************************)
(* Binary terms on their own: one term is evaluated over a one-column table *)
(***************************************************************************)
Numbers == {Integer(0), Integer(1), Integer(2)}

Booleans == {Bool(FALSE), Bool(TRUE)}

\* the operators that take booleans here
BooleanOps == {"AND", "OR", "=", "<>"}

\* a table with the one column c
OneColumn(values) == Frame(RangeIndex(Len(values)), <<[name |-> "c", values |-> values]>>)

\* column op scalar and scalar op scalar, over numbers and over booleans
BinaryTerms(of, ops) ==
    {BinaryTerm(l, Literal(s), op) :
        l \in {Column("c")} \cup {Literal(a) : a \in of}, s \in of, op \in ops}

InitBinary ==
    /\ \/ \E n \in 0..MaxRows : \E values \in [1..n -> Numbers] :
            \E term \in BinaryTerms(Numbers, BinaryOps) :
               /\ contexts = SetFrame(<<ContextInit(NoContext, EmptyDict, << >>, AllAllowed)>>,
                                      1, "it", OneColumn(values))
               /\ driver = [Driver("api", "running", << >>) EXCEPT !.input = <<term>>]
       \/ \E n \in 0..MaxRows : \E values \in [1..n -> Booleans] :
            \E term \in BinaryTerms(Booleans, BooleanOps) :
               /\ contexts = SetFrame(<<ContextInit(NoContext, EmptyDict, << >>, AllAllowed)>>,
                                      1, "it", OneColumn(values))
               /\ driver = [Driver("api", "running", << >>) EXCEPT !.input = <<term>>]
    /\ script = NewScript
    /\ stack = << >>
    /\ cwd = StartDir
    /\ exc = NoExc
    /\ ret = NoRet
    /\ lexer = [lineno |-> 1, state |-> "INITIAL"]
    /\ event = Quiet

\* term.evaluate(df) returns
BinaryEvaluate ==
    /\ exc = NoExc /\ ~ret.set
    /\ TermValueOn(driver.input[1], contexts[1].frames["it"]).kind # "raise"
    /\ ret' = [set |-> TRUE, value |-> TermValueOn(driver.input[1], contexts[1].frames["it"])]
    /\ event' = [Quiet EXCEPT !.exec = TRUE]
    /\ UNCHANGED <<contexts, stack, script, cwd, exc, lexer, driver>>

\* term.evaluate(df) raises
BinaryRaise ==
    /\ exc = NoExc /\ ~ret.set
    /\ TermValueOn(driver.input[1], contexts[1].frames["it"]).kind = "raise"
    /\ exc' = Raise(TermValueOn(driver.input[1], contexts[1].frames["it"]).name, "")
    /\ event' = [Quiet EXCEPT !.exec = TRUE, !.raised = TRUE]
    /\ UNCHANGED <<contexts, stack, script, cwd, ret, lexer, driver>>

NextBinary == BinaryEvaluate \/ BinaryRaise

SpecBinary == InitBinary /\ [][NextBinary]_vars

(***************************************************************************)
(* Unary terms on their own, over numbers (nan among them) and booleans     *)
(***************************************************************************)
Floats == Numbers \cup {NaN}

\* op column and op scalar
UnaryTerms(of, ops) ==
    {UnaryTerm(x, op) : x \in {Column("c")} \cup {Literal(a) : a \in of}, op \in ops}

InitUnary ==
    /\ \/ \E n \in 0..MaxRows : \E values \in [1..n -> Floats] :
            \E term \in UnaryTerms(Floats, UnaryOps) :
               /\ contexts = SetFrame(<<ContextInit(NoContext, EmptyDict, << >>, AllAllowed)>>,
                                      1, "it", OneColumn(values))
               /\ driver = [Driver("api", "running", << >>) EXCEPT !.input = <<term>>]
       \/ \E n \in 0..MaxRows : \E values \in [1..n -> Booleans] :
            \E term \in UnaryTerms(Booleans, UnaryOps \ {"-"}) :
               /\ contexts = SetFrame(<<ContextInit(NoContext, EmptyDict, << >>, AllAllowed)>>,
                                      1, "it", OneColumn(values))
               /\ driver = [Driver("api", "running", << >>) EXCEPT !.input = <<term>>]
    /\ script = NewScript
    /\ stack = << >>
    /\ cwd = StartDir
    /\ exc = NoExc
    /\ ret = NoRet
    /\ lexer = [lineno |-> 1, state |-> "INITIAL"]
    /\ event = Quiet

\* term.evaluate(df) returns
UnaryEvaluate ==
    /\ driver.input[1].cls = "UnaryTerm"
    /\ BinaryEvaluate

\* term.evaluate(df) raises
UnaryRaise ==
    /\ driver.input[1].cls = "UnaryTerm"
    /\ BinaryRaise

NextUnary == UnaryEvaluate \/ UnaryRaise

SpecUnary == InitUnary /\ [][NextUnary]_vars

(***************************************************************************)
(* RUN with arguments that are columns (statement.py, functions.py)         *)
(***************************************************************************)
\* a script that is not there
GonePql == <<"jobs", "gone.pql">>

\* the tables RUN takes its arguments from: a column of script names
Jobs ==
    UNION {{Frame(RangeIndex(n), <<[name |-> "file", values |-> files]>>) :
               files \in [1..n -> {SubPql, OnePql, GonePql}]} : n \in 0..MaxRows}

\* RUN file and RUN 'jobs/one.pql', file
VectorRuns ==
    {Run("it", <<Column("file")>>), Run("it", <<Literal(OnePql), Column("file")>>)}

\* series_function, zip(*(x.array if isinstance(x, pd.Series) else
\* itertools.repeat(x) for x in xs)): the arguments of each row
ZipArgs(args) ==
    LET series == {a \in 1..Len(args) : args[a].kind = "series"}
        n      == Len(args[CHOOSE a \in series : TRUE].values)
    IN  [i \in 1..n |-> [a \in 1..Len(args) |->
                            IF a \in series THEN args[a].values[i] ELSE args[a].values[1]]]

\* pd.Series(f(*xs) for xs in args) with f = Run.run: each row builds a child
\* Context and a Script and loads args[0] into it; what comes back for the row
\* is the coroutine of script.run_async(), which nothing has awaited
RECURSIVE RunRows(_, _, _, _)
RunRows(rows, i, dir, lx) ==
    IF i > Len(rows) THEN [raised |-> NoExc, lexer |-> lx, made |-> Len(rows)]
    ELSE LET ld == Load(NewScript, rows[i][1], dir, lx)
         IN  IF ld.raised # NoExc
             THEN [raised |-> ld.raised, lexer |-> ld.lexer, made |-> i]
             ELSE RunRows(rows, i + 1, dir, ld.lexer)

\* Run.execute when an argument evaluates to a Series: self.run returns the
\* Series of coroutines, and `await` of a Series is a TypeError
RunVectorized(self, context, dir, lx) ==
    IF ~context.allow_run
    THEN [raised |-> AssertionError("RUN"), lexer |-> lx, made |-> 0]
    ELSE LET df   == context.frames[self.table]
             args == [a \in 1..Len(self.args) |-> TermValueOn(self.args[a], df)]
             rows == RunRows(ZipArgs(args), 1, dir, lx)
         IN  IF rows.raised # NoExc THEN rows
             ELSE [raised |-> Raise("TypeError", "await"), lexer |-> rows.lexer,
                   made |-> rows.made]

InitVector ==
    /\ \E df \in Jobs, allow_run \in BOOLEAN :
         contexts = SetFrame(<<ContextInit(NoContext, EmptyDict, << >>,
                                           [AllAllowed EXCEPT !.allow_run = allow_run])>>,
                             1, "it", df)
    /\ script = NewScript
    /\ driver = Driver("repl", "prompt", << >>)
    /\ stack = << >>
    /\ cwd = StartDir
    /\ exc = NoExc
    /\ ret = NoRet
    /\ lexer = [lineno |-> 1, state |-> "INITIAL"]
    /\ event = Quiet

\* a line with a RUN over columns is loaded and run
RunVector(statement, done) ==
    /\ script' = [statements |-> <<[line |-> 1, statement |-> statement, into |-> NoAlias]>>,
                  source |-> NoSource]
    /\ exc' = done.raised
    /\ lexer' = done.lexer
    /\ event' = [exec |-> TRUE, raised |-> TRUE, made |-> done.made > 0,
                 io |-> IF done.made > 0 THEN "load" ELSE "none"]
    /\ driver' = [driver EXCEPT !.lines = @ + 1]
    /\ UNCHANGED <<contexts, stack, cwd, ret>>

ExecRunVector ==
    /\ exc = NoExc
    /\ \E statement \in VectorRuns :
         RunVector(statement, RunVectorized(statement, contexts[1], cwd, lexer))

NextVector == ExecRunVector

SpecVector == InitVector /\ [][NextVector]_vars

(***************************************************************************)
(* Scripts that call functions: an embedding program loads a text and runs  *)
(* it                                                                       *)
(***************************************************************************)
FunctionTexts ==
    {<<Command("CREATE", "a", <<"T1">>, NoAlias),
       Command("PRINT", "", <<"foo", "(", "x", ")">>, NoAlias),
       Command("PUT", "a", << >>, "b")>>,
     <<Command("PUT", "", << >>, "b"),
       Command("PRINT", "b", <<"FOO", "(", ")">>, NoAlias)>>,
     <<Command("PRINT", "", <<"IFNULL", "(", "x", ",", "y", ")">>, NoAlias),
       Command("CREATE", "a", <<"T1">>, NoAlias)>>,
     <<Command("PRINT", "", <<"IfNull", "(", "x", ",", "y", ")">>, NoAlias)>>,
     <<Command("PRINT", "", <<"ifnull", "(", "x", ",", "y", ")">>, NoAlias),
       Command("PRINT", "", <<"log2", "(", "x", ")">>, "a")>>,
     <<Command("PRINT", "", <<"ifnull", "(", "x", ")">>, NoAlias)>>,
     <<Command("CREATE", "a", <<"T1">>, NoAlias),
       Command("PRINT", "", <<"done">>, NoAlias),
       Command("PRINT", "a", <<"foo", "(", "x", ",", "y", ")">>, NoAlias)>>}

FunctionSources == {NoSource, <<"jobs", "main.pql">>}

InitFunction ==
    /\ \E given \in Flags :
         contexts = <<ContextInit(NoContext, EmptyDict, << >>, given)>>
    /\ driver = Driver("api", "start", << >>)
    /\ script = NewScript
    /\ stack = << >>
    /\ cwd = StartDir
    /\ exc = NoExc
    /\ ret = NoRet
    /\ lexer = [lineno |-> 1, state |-> "INITIAL"]
    /\ event = Quiet

\* script.loads(text, source); script.run()
FunctionLoad ==
    /\ driver.mode = "api" /\ driver.at = "start"
    /\ \E text \in FunctionTexts, source \in FunctionSources :
         LET ld == Loads(script, text, source, lexer, 1)
         IN  /\ lexer' = ld.lexer
             /\ script' = [statements |-> ld.statements, source |-> ld.source]
             /\ IF ld.raised = NoExc
                THEN /\ stack' = <<Call(script')>>
                     /\ driver' = [driver EXCEPT !.at = "running", !.input = text]
                ELSE /\ stack' = stack
                     /\ driver' = [driver EXCEPT !.at = "finished", !.input = text,
                                                 !.outcome = "raised", !.error = ld.raised]
    /\ event' = Quiet
    /\ UNCHANGED <<contexts, cwd, exc, ret>>

NextFunction ==
    \/ FunctionLoad
    \/ RunAsyncEnter
    \/ ExecCreate
    \/ ExecPrint
    \/ ExecPut
    \/ RunAsyncReturn
    \/ DriverReturn
    \/ DriverRaise

SpecFunction == InitFunction /\ [][NextFunction]_vars

(***************************************************************************)
(* Dialects (dialect.py) and the locations READ and WRITE name.  A location *)
(* is a path whose last component is the file name.                         *)
(***************************************************************************)
\* a Python str, and None where a location is expected
Str(value) == [cls |-> "str", value |-> value]

NoLocation == [cls |-> "NoneType", value |-> << >>]

\* a Dialect object; None where one is expected
Dialect(kind, header, sep, linesep) ==
    [kind |-> kind, header |-> header, sep |-> sep, linesep |-> linesep]

NoDialect == Dialect("None", FALSE, "", "")

JSON == Dialect("JSON", FALSE, "", "")

JSONLines == Dialect("JSONLines", FALSE, "", "")

HTML == Dialect("HTML", FALSE, "", "")

\* CSV(**opts): sep=',', linesep='\n', header=True unless given
CSV(opts) ==
    Dialect("CSV",
            IF "header" \in DOMAIN opts THEN opts["header"] = "True" ELSE TRUE,
            IF "sep" \in DOMAIN opts THEN opts["sep"] ELSE ",",
            IF "linesep" \in DOMAIN opts THEN opts["linesep"] ELSE "\n")

\* os.path.splitext(path)[1][1:] of the file names there are
Extension(name) ==
    CASE name \in {"out.csv", "T3.csv", "T5.csv", "in.csv"} -> "csv"
      [] name \in {"out.tsv", "in.tsv"}   -> "tsv"
      [] name \in {"out.json", "in.json"} -> "json"
      [] name \in {"out.JSONL", "in.JSONL"} -> "JSONL"
      [] name \in {"out.txt", "in.txt"}   -> "txt"
      [] OTHER -> ""

\* csv.register_dialect at the top of dialect.py, and the csv module's own
CsvDialects == {"csv", "tsv", "vcf", "bed", "excel", "excel-tab", "unix"}

\* csv.get_dialect(ext).delimiter
Delimiter(ext) == IF ext \in {"tsv", "vcf", "bed", "excel-tab"} THEN "\t" ELSE ","

\* csv.get_dialect(ext).lineterminator
LineTerminator(ext) == IF ext = "unix" THEN "\n" ELSE "\r\n"

\* Dialect.infer on the lower-case extension: csv.get_dialect raises csv.Error
\* for a name that is not registered
InferExtension(ext) ==
    IF ext = "" THEN [raised |-> NoExc, dialect |-> NoDialect]
    ELSE IF ext \in {"json", "jsonl"}
         THEN [raised |-> NoExc, dialect |-> IF ext = "jsonl" THEN JSONLines ELSE JSON]
    ELSE IF ext \in CsvDialects
         THEN [raised |-> NoExc,
               dialect |-> Dialect("CSV", TRUE, Delimiter(ext), LineTerminator(ext))]
    ELSE [raised |-> Raise("Error", "unknown dialect"), dialect |-> NoDialect]

\* Dialect.infer(location): urlparse(None).path is empty, and so is the
\* extension
Infer(location) ==
    IF location.cls = "NoneType" \/ location.value = << >>
    THEN InferExtension("")
    ELSE InferExtension(Lower(Extension(location.value[Len(location.value)])))

(***************************************************************************)
(* Worker threads: Read.execute and Query.execute hand their blocking call  *)
(* to asyncio.to_thread and await it; driver.input holds the call in flight *)
(***************************************************************************)
Write(table, file_or_url, dialect) ==
    [cls |-> "Write", table |-> table, file_or_url |-> file_or_url, dialect |-> dialect]

Query(term, source, table) ==
    [cls |-> "Query", term |-> term, source |-> source, table |-> table]

\* asyncio.to_thread(fn, arg): the call and, once it is done, what it returned
\* or raised; to_thread submits to the default executor of the event loop, and
\* nothing submits to the thread_pool of the Context
Job(fn, arg) ==
    [fn |-> fn, arg |-> arg, executor |-> "asyncio", done |-> FALSE, data |-> None,
     error |-> NoExc]

\* a variant that goes on with the loop instead of awaiting
AwaitNot(f) == [f EXCEPT !.pc = @ + 1]

\* `await`: the coroutine of run_async is suspended in the statement
Await(f) == [f EXCEPT !.phase = "await"]

\* the programs an embedding program runs
WorkerPrograms ==
    {<<[statement |-> Read(Literal(<<"T3.csv">>), "it"), into |-> NoAlias],
       [statement |-> Put("it"), into |-> "a"]>>,
     <<[statement |-> Read(Literal(<<"T3.csv">>), "it"), into |-> "a"],
       [statement |-> Read(Literal(<<"T5.csv">>), "a"), into |-> NoAlias]>>,
     <<[statement |-> Create("CSV", "T1"), into |-> "a"],
       [statement |-> Write("a", Literal(<<"out.csv">>), NoDialect), into |-> NoAlias],
       [statement |-> Read(Literal(<<"T3.csv">>), "b"), into |-> NoAlias]>>,
     <<[statement |-> Query(Literal(<<"age > 40">>), "db", "people"), into |-> "a"],
       [statement |-> Write("it", Literal(<<"out.csv">>), NoDialect), into |-> NoAlias]>>,
     <<[statement |-> Create("CSV", "T1"), into |-> "a"],
       [statement |-> Run("it", <<Literal(<<"jobs">> \o LeafPql)>>), into |-> "c"],
       [statement |-> Put("a"), into |-> NoAlias]>>,
     <<[statement |-> Run("it", <<Literal(OnePql)>>), into |-> NoAlias],
       [statement |-> Query(Literal(<<"age > 40">>), "db", "people"), into |-> NoAlias]>>}

InitWorkers ==
    /\ \E statements \in WorkerPrograms, registered \in BOOLEAN :
         /\ contexts = <<IF registered
                         THEN Register(ContextInit(NoContext, EmptyDict, << >>, AllAllowed),
                                       "db", SQLSource(<<"sqlite://">>))
                         ELSE ContextInit(NoContext, EmptyDict, << >>, AllAllowed)>>
         /\ script = [statements |-> [i \in 1..Len(statements) |->
                                         [line |-> i, statement |-> statements[i].statement,
                                          into |-> statements[i].into]],
                      source |-> NoSource]
    /\ driver = Driver("api", "ready", << >>)
    /\ stack = << >>
    /\ cwd = StartDir
    /\ exc = NoExc
    /\ ret = NoRet
    /\ lexer = [lineno |-> 1, state |-> "INITIAL"]
    /\ event = Quiet

\* the statement hands its call to a thread and awaits it
ToThread(job) ==
    /\ stack' = [stack EXCEPT ![Depth] = Await(Top)]
    /\ driver' = [driver EXCEPT !.input = <<job>>]
    /\ event' = [exec |-> TRUE, raised |-> FALSE, io |-> "to_thread", made |-> FALSE]
    /\ UNCHANGED <<contexts, script, cwd, exc, ret, lexer>>

\* Read.execute up to `await asyncio.to_thread(self.read, source, self.dialect)`
ReadToThread ==
    /\ AtStatement("Read")
    /\ IF ReadExecute(Current, contexts[Depth], TRUE).raised # NoExc
       THEN Pass(ReadExecute(Current, contexts[Depth], TRUE))
       ELSE ToThread(Job("read", Evaluate(Current.file_or_url,
                                          contexts[Depth].frames[Current.table])))

\* Query.execute up to `await asyncio.to_thread(self.runquery, query, source, self.table)`
QueryToThread ==
    /\ AtStatement("Query")
    /\ IF Current.source \notin DOMAIN contexts[Depth].sources
       THEN Pass(Raised(contexts[Depth], KeyError(Current.source), "none"))
       ELSE ToThread(Job("runquery", <<Current.table>>))

\* the thread runs Read.read or Query.runquery, static methods that are given
\* no Context; ok: the location or the source can be read
WorkerRun ==
    /\ driver.input # << >> /\ ~driver.input[1].done
    /\ \E ok \in BOOLEAN :
         driver' = [driver EXCEPT
                      !.input = <<[driver.input[1] EXCEPT
                                     !.done = TRUE,
                                     !.data = IF ok THEN Contents(driver.input[1].arg) ELSE None,
                                     !.error = IF ok THEN NoExc
                                               ELSE Raise("FileNotFoundError", "No such file")]>>]
    /\ event' = Quiet
    /\ UNCHANGED <<contexts, stack, script, cwd, exc, ret, lexer>>

\* the await returns or raises: the rest of execute and of the pass of the loop
Resume ==
    /\ Depth > 0 /\ Top.phase = "await"
    /\ driver.input # << >> /\ driver.input[1].done
    /\ LET job == driver.input[1]
           it  == Iterate([Top EXCEPT !.phase = "loop"], contexts, Depth,
                          IF job.error = NoExc
                          THEN Returned(contexts[Depth], job.data, "open")
                          ELSE Raised(contexts[Depth], job.error, "open"))
       IN  /\ contexts' = it.contexts
           /\ IF it.raised = NoExc
              THEN /\ stack' = [stack EXCEPT ![Depth] = it.frame]
                   /\ UNCHANGED <<cwd, exc>>
              ELSE /\ exc' = it.raised
                   /\ cwd' = Finally(Top)
                   /\ stack' = SubSeq(stack, 1, Depth - 1)
           /\ event' = [Quiet EXCEPT !.raised = job.error # NoExc]
    /\ driver' = [driver EXCEPT !.input = << >>]
    /\ UNCHANGED <<script, ret, lexer>>

\* what Write.execute did, and the dialect it wrote with
Written(o, dialect) ==
    [raised |-> o.raised, result |-> o.result, context |-> o.context, io |-> o.io,
     dialect |-> dialect]

\* Write.execute, "write the table to the location": dialect.write to
\* sys.stdout, or to the location once smart_open has opened it
WriteTo(context, file_or_url, dialect, ok) ==
    IF file_or_url.cls = "NoneType"
    THEN IF dialect = NoDialect
         THEN Written(Raised(context, Raise("AttributeError", "write"), "none"), dialect)
         ELSE Written(Returned(context, None, "stdout"), dialect)
    ELSE IF ~ok
         THEN Written(Raised(context, Raise("FileNotFoundError", "No such file"), "write"),
                      dialect)
    ELSE IF dialect = NoDialect
         THEN Written(Raised(context, Raise("AttributeError", "write"), "write"), dialect)
    ELSE Written(Returned(context, None, "write"), dialect)

\* Write.execute, "infer formatter from file extension"
WriteInferred(context, file_or_url, inferred, ok) ==
    IF inferred.raised # NoExc
    THEN Written(Raised(context, inferred.raised, "none"), NoDialect)
    ELSE WriteTo(context, file_or_url, inferred.dialect, ok)

WriteAs(self, context, file_or_url, ok) ==
    IF self.dialect = NoDialect
    THEN WriteInferred(context, file_or_url, Infer(file_or_url), ok)
    ELSE WriteTo(context, file_or_url, self.dialect, ok)

\* Write.execute: it opens the location and writes on the thread of the
\* interpreter; ok: the location can be written.  A file_or_url that is a str
\* has no evaluate.
WriteExecute(self, context, ok) ==
    IF self.table \notin DOMAIN context.frames
    THEN Written(Raised(context, KeyError(self.table), "none"), NoDialect)
    ELSE IF self.file_or_url.cls = "NoneType"
         THEN WriteAs(self, context, NoLocation, ok)
    ELSE IF self.file_or_url.cls = "str"
         THEN Written(Raised(context, Raise("AttributeError", "evaluate"), "none"), NoDialect)
    ELSE WriteAs(self, context, Str(Evaluate(self.file_or_url, context.frames["it"])), ok)

ExecWrite ==
    /\ AtStatement("Write")
    /\ \E ok \in BOOLEAN : Pass(WriteExecute(Current, contexts[Depth], ok))

NextWorkers ==
    \/ ApiRun
    \/ DriverReturn
    \/ DriverRaise
    \/ RunAsyncEnter
    \/ ExecCreate
    \/ ExecPrint
    \/ ExecPut
    \/ ExecWrite
    \/ ReadToThread
    \/ QueryToThread
    \/ WorkerRun
    \/ Resume
    \/ ExecRun
    \/ RunAwaited
    \/ RunRaised
    \/ RunAsyncReturn

SpecWorkers == InitWorkers /\ [][NextWorkers]_vars

(***************************************************************************)
(* Script.loads called again and again on one Script                        *)
(***************************************************************************)
\* calls of loads on the Script
MaxLoads == 2

\* texts that parse, that end inside a heredoc, and that hold a token no
\* production accepts
LoadTexts ==
    {<<Command("CREATE", "a", <<"T1">>, NoAlias), Command("PUT", "a", << >>, "b")>>,
     <<Command("PUT", "", << >>, NoAlias)>>,
     <<Command("CREATE", "a", << >>, NoAlias)>>,
     <<Command("PRINT", "", <<"done">>, NoAlias), Command("CREATE", "b", << >>, NoAlias)>>,
     <<Command("PUT", "", << >>, "a"), Command("FROM", "", << >>, NoAlias)>>,
     <<Command("FROM", "", << >>, NoAlias), Command("CREATE", "a", << >>, NoAlias)>>}

LoadSources == {NoSource, <<"jobs", "main.pql">>, <<"jobs", "next.pql">>}

InitLoads ==
    /\ contexts = <<ContextInit(NoContext, EmptyDict, << >>, AllAllowed)>>
    /\ driver = Driver("api", "start", << >>)
    /\ script = NewScript
    /\ stack = << >>
    /\ cwd = StartDir
    /\ exc = NoExc
    /\ ret = NoRet
    /\ lexer = [lineno |-> 1, state |-> "INITIAL"]
    /\ event = Quiet

\* ld: what Script.loads did; the caller is left with the Script and the
\* exception
Loaded(text, source, ld) ==
    /\ lexer' = ld.lexer
    /\ script' = [statements |-> ld.statements, source |-> ld.source]
    /\ driver' = [driver EXCEPT !.lines = @ + 1, !.input = text, !.args = source,
                                !.outcome = IF ld.raised = NoExc THEN "returned" ELSE "raised",
                                !.error = ld.raised]
    /\ event' = Quiet
    /\ UNCHANGED <<contexts, stack, cwd, exc, ret>>

\* script.loads(text, source=source)
ApiLoads ==
    /\ driver.mode = "api" /\ driver.at = "start" /\ driver.lines < MaxLoads
    /\ \E text \in LoadTexts, source \in LoadSources :
         Loaded(text, source, Loads(script, text, source, lexer, 1))

NextLoads == ApiLoads

SpecLoads == InitLoads /\ [][NextLoads]_vars

(***************************************************************************)
(* READ and WRITE as the parser builds them (parser.py): a statement is     *)
(* written as its verb, its table ("" for none), its location (<< >> for    *)
(* none) and the tokens after AS (<< >> for none), as they are spelled.     *)
(***************************************************************************)
\* str.upper on the words that are written
Upper(name) ==
    CASE name \in {"csv", "Csv"}       -> "CSV"
      [] name \in {"with", "With"}     -> "WITH"
      [] name \in {"no", "No"}         -> "NO"
      [] name \in {"header", "Header"} -> "HEADER"
      [] name = "json"                 -> "JSON"
      [] name = "lines"                -> "LINES"
      [] name \in {"not", "Not"}       -> "NOT"
      [] name = "and"                  -> "AND"
      [] name = "or"                   -> "OR"
      [] name = "print"                -> "PRINT"
      [] name = "asc"                  -> "ASC"
      [] name = "desc"                 -> "DESC"
      [] OTHER                         -> name

\* the reserved words that are written
Reserved ==
    {"AND", "AS", "ASC", "CSV", "DELIMITER", "DESC", "FIELD", "HEADER", "HTML", "JSON",
     "LINES", "NO", "NOT", "OR", "PRINT", "TAB", "WITH"}

\* t_ID: the type of a word is its upper case when that is reserved; its value
\* stays as it is written
TokenType(value) == IF Upper(value) \in Reserved THEN Upper(value) ELSE "ID"

\* csvopts: {'header': p[1] == 'WITH', **p[3]} and {'sep': p[3], **p[4]}, from
\* the n-th token on
RECURSIVE PCsvopts(_, _)
PCsvopts(tokens, n) ==
    IF n > Len(tokens) THEN EmptyDict
    ELSE IF TokenType(tokens[n]) \in {"WITH", "NO"}
         THEN DictUpdate([k \in {"header"} |-> IF tokens[n] = "WITH" THEN "True" ELSE "False"],
                         PCsvopts(tokens, n + 2))
    ELSE DictUpdate([k \in {"sep"} |-> "\t"], PCsvopts(tokens, n + 3))

\* asinputformat, asoutputformat : AS csv | AS json | AS html
PFormat(tokens) ==
    IF TokenType(tokens[1]) = "CSV" THEN CSV(PCsvopts(tokens, 2))
    ELSE IF TokenType(tokens[1]) = "HTML" THEN HTML
    ELSE IF Len(tokens) > 1 THEN JSONLines
    ELSE JSON

\* a grammar symbol on the parser's stack
Sym(type, value) == [type |-> type, value |-> value]

Form(verb, table, location, as) ==
    [verb |-> verb, table |-> table, location |-> location, as |-> as]

\* p.slice[1:] when the production of the statement is reduced
Slice(form) ==
    (IF form.verb = "WRITE" THEN <<Sym("WRITE", "WRITE")>>
     ELSE <<Sym("READ", "READ"), Sym("term", Literal(form.location))>>)
    \o (IF form.table = "" THEN << >>
        ELSE IF form.verb = "WRITE" THEN <<Sym("ident", form.table)>>
        ELSE <<Sym("FROM", "FROM"), Sym("ident", form.table)>>)
    \o (IF form.verb = "WRITE" /\ form.location # << >>
        THEN <<Sym("to", Str(form.location))>> ELSE << >>)
    \o (IF form.as = << >> THEN << >>
        ELSE <<Sym(IF form.verb = "WRITE" THEN "asoutputformat" ELSE "asinputformat",
                   PFormat(form.as))>>)

\* clause(p, symbol, default): the value of the first symbol of that type
Clause(p, symbol, default) ==
    IF \E i \in 1..Len(p) : p[i].type = symbol
    THEN p[CHOOSE i \in 1..Len(p) :
              /\ p[i].type = symbol
              /\ \A j \in 1..(i - 1) : p[j].type # symbol].value
    ELSE default

\* p_write, p_write_it
PWrite(p) ==
    Write(IF Len(p) >= 2 /\ p[2].type = "ident" THEN p[2].value ELSE "it",
          Clause(p, "to", NoLocation), Clause(p, "as", NoDialect))

\* p_read, p_read_it
PRead(p) ==
    [cls |-> "Read", file_or_url |-> p[2].value,
     table |-> IF Len(p) >= 4 /\ p[3].type = "FROM" THEN p[4].value ELSE "it",
     dialect |-> Clause(p, "as", NoDialect)]

\* Read.read once the dialect is known: smart_open.open, then dialect.read
ReadWith(context, source, dialect, ok) ==
    IF ~ok
    THEN Written(Raised(context, Raise("FileNotFoundError", "No such file"), "open"), dialect)
    ELSE IF dialect = NoDialect
         THEN Written(Raised(context, Raise("AttributeError", "read"), "open"), dialect)
    ELSE Written(Returned(context, Contents(source.value), "open"), dialect)

ReadInferred(context, source, inferred, ok) ==
    IF inferred.raised # NoExc
    THEN Written(Raised(context, inferred.raised, "none"), NoDialect)
    ELSE ReadWith(context, source, inferred.dialect, ok)

\* Read.read: "if dialect is None: dialect = Dialect.infer(source)"
ReadRead(context, source, dialect, ok) ==
    IF dialect = NoDialect
    THEN ReadInferred(context, source, Infer(source), ok)
    ELSE ReadWith(context, source, dialect, ok)

\* Read.execute of a statement with its dialect
ReadExecuteAs(self, context, ok) ==
    IF ~context.allow_read
    THEN Written(Raised(context, AssertionError("READ"), "none"), NoDialect)
    ELSE IF self.table \notin DOMAIN context.frames
         THEN Written(Raised(context, KeyError(self.table), "none"), NoDialect)
    ELSE ReadRead(context, Str(Evaluate(self.file_or_url, context.frames[self.table])),
                  self.dialect, ok)

FormTables == {"", "people", "gone"}

FormLocations ==
    {<<"out.csv">>, <<"out.tsv">>, <<"out.json">>, <<"out.JSONL">>, <<"out.txt">>, <<"data">>}

FormFormats ==
    {<<"CSV">>, <<"CSV", "NO", "HEADER">>, <<"CSV", "WITH", "HEADER">>,
     <<"CSV", "FIELD", "DELIMITER", "TAB", "NO", "HEADER">>,
     <<"csv", "with", "header">>, <<"Csv", "No", "Header">>,
     <<"JSON">>, <<"JSON", "LINES">>, <<"json", "lines">>}

Forms ==
    {Form("WRITE", t, l, a) : t \in FormTables, l \in FormLocations \cup {<< >>},
                              a \in FormFormats \cup {<< >>, <<"HTML">>}}
    \cup {Form("READ", t, l, a) : t \in FormTables, l \in FormLocations,
                                  a \in FormFormats \cup {<< >>}}

InitForms ==
    /\ contexts = SetFrame(SetFrame(<<ContextInit(NoContext, EmptyDict, << >>, AllAllowed)>>,
                                    1, "it", Table("T1")), 1, "people", Table("T2"))
    /\ driver = Driver("api", "start", << >>)
    /\ script = NewScript
    /\ stack = << >>
    /\ cwd = StartDir
    /\ exc = NoExc
    /\ ret = NoRet
    /\ lexer = [lineno |-> 1, state |-> "INITIAL"]
    /\ event = Quiet

\* script.loads of the one statement
ParseForm ==
    /\ driver.at = "start"
    /\ \E form \in Forms :
         /\ script' = [statements |-> <<[line |-> 1,
                                         statement |-> IF form.verb = "WRITE"
                                                       THEN PWrite(Slice(form))
                                                       ELSE PRead(Slice(form)),
                                         into |-> NoAlias]>>,
                       source |-> NoSource]
         /\ driver' = [driver EXCEPT !.at = "running", !.input = <<form>>]
    /\ event' = Quiet
    /\ UNCHANGED <<contexts, stack, cwd, exc, ret, lexer>>

\* one pass of run_async over the statement; o: what its execute did.  The
\* dialect it used is kept in driver.result.
FormExecuted(o) ==
    /\ contexts' = IF o.raised = NoExc
                   THEN UpdateContext([contexts EXCEPT ![1] = o.context], 1, o.result, NoAlias)
                   ELSE contexts
    /\ driver' = [driver EXCEPT !.at = "finished",
                                !.outcome = IF o.raised = NoExc THEN "returned" ELSE "raised",
                                !.error = o.raised,
                                !.result = o.dialect]
    /\ event' = [exec |-> TRUE, raised |-> o.raised # NoExc, io |-> o.io, made |-> FALSE]
    /\ UNCHANGED <<script, stack, cwd, exc, ret, lexer>>

ExecWriteForm ==
    /\ driver.at = "running" /\ script.statements[1].statement.cls = "Write"
    /\ \E ok \in BOOLEAN :
         FormExecuted(WriteExecute(script.statements[1].statement, contexts[1], ok))

ExecReadForm ==
    /\ driver.at = "running" /\ script.statements[1].statement.cls = "Read"
    /\ \E ok \in BOOLEAN :
         FormExecuted(ReadExecuteAs(script.statements[1].statement, contexts[1], ok))

NextForms ==
    \/ ParseForm
    \/ ExecWriteForm
    \/ ExecReadForm

SpecForms == InitForms /\ [][NextForms]_vars

(***************************************************************************)
(* SORT as the parser builds it: the statement is written as its table ("" *)
(* for none) and the keys after BY (<< >> for no BY clause), each a column  *)
(* and the direction written after it ("" for none).                        *)
(***************************************************************************)
\* a Python list, and None where a list is expected
List(items) == [py |-> "list", items |-> items]

NoList == [py |-> "NoneType", items |-> << >>]

\* p_order, p_order_dir: (column, ascending)
POrder(order) == <<order[1], IF order[2] = "" THEN TRUE ELSE Upper(order[2]) = "ASC">>

\* orderby : BY ordering
POrderby(ordering) == List([n \in 1..Len(ordering) |-> POrder(ordering[n])])

\* p.slice[1:] of sort : SORT ident | SORT ident orderby | SORT orderby
SortSlice(table, ordering) ==
    <<Sym("SORT", "SORT")>>
    \o (IF table = "" THEN << >> ELSE <<Sym("ident", table)>>)
    \o (IF ordering = << >> THEN << >> ELSE <<Sym("orderby", POrderby(ordering))>>)

\* p_sort, p_sort_it
PSort(p) ==
    Sort(IF p[2].type = "ident" THEN p[2].value ELSE "it", Clause(p, "orderby", NoList))

\* the keys that are written
WrittenOrderings ==
    {<<<<"k", "">>>>, <<<<"k", "DESC">>>>, <<<<"j", "asc">>>>,
     <<<<"k", "">>, <<"j", "desc">>>>, <<<<"j", "DESC">>, <<"k", "ASC">>>>}

SortForms ==
    {[table |-> t, by |-> o] : t \in {"", "t"}, o \in WrittenOrderings}
    \cup {[table |-> "t", by |-> << >>]}

InitSortForms ==
    /\ \E rows \in Frames, form \in SortForms :
         /\ contexts = SetFrame(SetFrame(<<ContextInit(NoContext, EmptyDict, << >>, AllAllowed)>>,
                                         1, "it", DataFrame(rows)), 1, "t", DataFrame(rows))
         /\ script = [statements |-> <<[line |-> 1,
                                        statement |-> PSort(SortSlice(form.table, form.by)),
                                        into |-> NoAlias]>>,
                      source |-> NoSource]
         /\ driver = Driver("api", "running", <<form>>)
    /\ stack = << >>
    /\ cwd = StartDir
    /\ exc = NoExc
    /\ ret = NoRet
    /\ lexer = [lineno |-> 1, state |-> "INITIAL"]
    /\ event = Quiet

\* Sort.execute of the parsed statement: len(by) of None raises
ExecSortForm ==
    /\ driver.at = "running"
    /\ IF script.statements[1].statement.by.py = "NoneType"
       THEN /\ driver' = [driver EXCEPT !.at = "finished", !.outcome = "raised",
                                        !.error = Raise("TypeError", "len")]
            /\ event' = [Quiet EXCEPT !.exec = TRUE, !.raised = TRUE]
            /\ UNCHANGED contexts
       ELSE /\ \E result \in SortExecute(Sort(script.statements[1].statement.table,
                                              script.statements[1].statement.by.items),
                                         contexts[1]) :
                 contexts' = SetFrame(contexts, 1, "it", result)
            /\ driver' = [driver EXCEPT !.at = "finished", !.outcome = "returned"]
            /\ event' = [Quiet EXCEPT !.exec = TRUE]
    /\ UNCHANGED <<stack, script, cwd, exc, ret, lexer>>

NextSortForms == ExecSortForm

SpecSortForms == InitSortForms /\ [][NextSortForms]_vars

(***************************************************************************)
(* Keywords in the case they are written in: a phrase is the words of a    *)
(* term (NOT x, x AND y), of the format after AS, or of a key after BY.     *)
(***************************************************************************)
Phrase(kind, tokens) == [kind |-> kind, tokens |-> tokens]

\* the lexer over the words: the type t_ID gives each
Types(tokens) == [i \in 1..Len(tokens) |-> TokenType(tokens[i])]

\* what a production gives: its value, or the exception it raises
Reduced(value) == [raised |-> NoExc, value |-> value]

Failed(ex) == [raised |-> ex, value |-> None]

\* p_term_unary: UnaryTerm(term=p[2], op=unary_ops[p[1]])
PTermUnary(p) ==
    IF p[1] \in {"-", "NOT"} THEN Reduced(UnaryTerm(Column(p[2]), p[1]))
    ELSE Failed(KeyError(p[1]))

\* p_term_binary: BinaryTerm(l=p[1], r=p[3], op=binary_ops[p[2].upper()])
PTermBinary(p) == Reduced(BinaryTerm(Column(p[1]), Column(p[3]), Upper(p[2])))

\* the production the words reduce by
PPhrase(phrase) ==
    CASE phrase.kind = "term" /\ Len(phrase.tokens) = 2 -> PTermUnary(phrase.tokens)
      [] phrase.kind = "term"   -> PTermBinary(phrase.tokens)
      [] phrase.kind = "format" -> Reduced(PFormat(phrase.tokens))
      [] phrase.kind = "order"  -> Reduced(POrder(phrase.tokens))

Phrases ==
    {Phrase("term", <<op, x>>) : op \in {"NOT", "not", "Not"}, x \in {"x", "y", "flag"}}
    \cup {Phrase("term", <<x, op, y>>) : x \in {"x", "y"}, op \in {"AND", "and", "OR", "or"},
                                          y \in {"x", "y"}}
    \cup {Phrase("format", f) : f \in FormFormats}
    \cup {Phrase("order", <<k, dir>>) : k \in {"k", "j"}, dir \in {"ASC", "asc", "DESC", "desc"}}

InitKeywords ==
    /\ \E phrase \in Phrases : driver = [Driver("api", "start", << >>) EXCEPT !.input = <<phrase>>]
    /\ contexts = <<ContextInit(NoContext, EmptyDict, << >>, AllAllowed)>>
    /\ script = NewScript
    /\ stack = << >>
    /\ cwd = StartDir
    /\ exc = NoExc
    /\ ret = NoRet
    /\ lexer = [lineno |-> 1, state |-> "INITIAL"]
    /\ event = Quiet

\* the lexer reads the words
Tokenize ==
    /\ driver.at = "start"
    /\ driver' = [driver EXCEPT !.at = "lexed", !.args = Types(driver.input[1].tokens)]
    /\ event' = Quiet
    /\ UNCHANGED <<contexts, stack, script, cwd, exc, ret, lexer>>

PhraseParsed(r) ==
    /\ exc' = r.raised
    /\ ret' = IF r.raised = NoExc THEN [set |-> TRUE, value |-> r.value] ELSE ret

\* the parser reduces them
ParsePhrase ==
    /\ driver.at = "lexed"
    /\ PhraseParsed(PPhrase(driver.input[1]))
    /\ driver' = [driver EXCEPT !.at = "parsed"]
    /\ event' = [Quiet EXCEPT !.exec = TRUE, !.raised = exc' # NoExc]
    /\ UNCHANGED <<contexts, stack, script, cwd, lexer>>

NextKeywords == Tokenize \/ ParsePhrase

SpecKeywords == InitKeywords /\ [][NextKeywords]_vars

(***************************************************************************)
(* Properties                                                              *)
(***************************************************************************)
FlagNames == {"allow_read", "allow_connect", "allow_run"}

\* C1: permission narrowing.  For every Context built with a parent, at any
\* depth, each effective flag is the flag given to the constructor AND the
\* parent's effective flag, so no Context has a flag enabled that one of its
\* ancestors has disabled.
C1_PermissionNarrowing ==
    \A i \in 2..Len(contexts) : \A x \in FlagNames :
        /\ contexts[i][x] = (contexts[i].given[x] /\ contexts[i - 1][x])
        /\ \A j \in 1..(i - 1) : contexts[i][x] => contexts[j][x]

\* a grandchild that was given allow_read under a parent that was given it too,
\* and has it disabled because the root has
C1_Witness ==
    /\ Len(contexts) = 3
    /\ ~contexts[1].allow_read
    /\ contexts[2].given.allow_read /\ contexts[3].given.allow_read
    /\ ~contexts[3].allow_read
    /\ contexts[3].allow_run /\ ~contexts[3].given.allow_connect

\* the exception is the failed assert of the verb's permission, as raised or as
\* the driver re-raised it
IsPermissionError(ex, verb) ==
    /\ ex.msg = verb
    /\ \/ ex.type = "AssertionError"
       \/ ex.type = "RuntimeError" /\ ex.context = "AssertionError"

\* C2: with allow_run = false a RUN statement fails with the permission error;
\* no Context changes, no child Context is built and no script is loaded.
C2_RunDenied ==
    [][ (AtStatement("Run") /\ ~contexts[Depth].allow_run) =>
            /\ IsPermissionError(exc', "RUN")
            /\ Len(stack') = Depth - 1
            /\ contexts' = contexts
            /\ ~event'.made
            /\ event'.io = "none"
            /\ lexer' = lexer ]_vars

\* a RUN was refused in a Context that has tables bound, and the error is on its
\* way to the caller
C2_Witness ==
    /\ IsPermissionError(exc, "RUN")
    /\ event.exec /\ event.raised
    /\ "a" \in DOMAIN contexts[1].frames
    /\ ~contexts[1].allow_run

FlagOf(cls) ==
    CASE cls = "Read" -> "allow_read"
      [] cls = "Connect" -> "allow_connect"
      [] cls = "Run" -> "allow_run"
      [] OTHER -> "none"

VerbOf(cls) ==
    CASE cls = "Read" -> "READ"
      [] cls = "Connect" -> "CONNECT"
      [] cls = "Run" -> "RUN"
      [] OTHER -> "none"

\* C3: READ and CONNECT are gated like RUN.  With its flag off the statement
\* fails with its permission error before anything is opened or registered and
\* the Context is unchanged; and a statement raises a permission error only if
\* it is a gated verb whose own flag is off.
C3_ReadConnectGated ==
    [][ /\ \A cls \in {"Read", "Connect"} :
              (AtStatement(cls) /\ ~contexts[Depth][FlagOf(cls)]) =>
                  /\ IsPermissionError(exc', VerbOf(cls))
                  /\ Len(stack') = Depth - 1
                  /\ contexts' = contexts
                  /\ event'.io = "none"
        /\ (InLoop /\ event'.exec /\ event'.raised
                /\ \E verb \in {"READ", "CONNECT", "RUN"} : IsPermissionError(exc', verb)) =>
              /\ FlagOf(Current.cls) # "none"
              /\ ~contexts[Depth][FlagOf(Current.cls)]
              /\ IsPermissionError(exc', VerbOf(Current.cls)) ]_vars

\* a READ was refused in a Context that allows CONNECT and RUN and in which a
\* CONNECT before it registered a source
C3_Witness ==
    /\ IsPermissionError(exc, "READ")
    /\ event.exec /\ event.raised
    /\ Len(contexts) = 1
    /\ contexts[1].allow_connect /\ contexts[1].allow_run
    /\ "db" \in DOMAIN contexts[1].sources

\* the statement a call is at, and its alias
StatementAt(f) == f.statements[f.pc].statement

IntoAt(f) == f.statements[f.pc].into

\* C4: the driver executes the statements in program order and stops at the
\* first that raises.  A call starts at its first statement and moves to the
\* next only when the one it is at has returned; when a statement raises, the
\* call ends with the exception, so no later statement of it executes, and the
\* frames of its Context, with what the earlier statements bound, stay as they were.
C4_ProgramOrder ==
    [][ /\ \A i \in 1..Len(stack') :
              IF i <= Depth
              THEN /\ stack'[i].statements = stack[i].statements
                   /\ stack'[i].pc \in {stack[i].pc, stack[i].pc + 1}
                   /\ stack'[i].pc # stack[i].pc =>
                         /\ i = Depth /\ Len(stack') = Depth
                         /\ ~event'.raised /\ exc' = NoExc
                         /\ event'.exec \/ ret.set
              ELSE stack'[i].pc = 1
        /\ event'.exec => (InLoop /\ Top.pc <= Len(Top.statements))
        /\ event'.raised =>
              /\ Len(stack') = Depth - 1
              /\ exc' # NoExc
              /\ contexts'[Depth].frames = contexts[Depth].frames
        /\ exc # NoExc => (~event'.exec /\ Len(stack') <= Depth) ]_vars

\* the second statement of deep/leaf.pql raised: the call is over with its third
\* statement not executed, and the table its first statement bound is still there
C4_Witness ==
    /\ event.exec /\ event.raised
    /\ exc.context = "FileNotFoundError"
    /\ Len(contexts) = Depth + 1
    /\ "b" \in DOMAIN contexts[Depth + 1].frames
    /\ contexts[Depth + 1].frames["it"] = contexts[Depth + 1].frames["b"]
    /\ contexts[Depth + 1].frames["it"] # EmptyFrame

\* the statement classes that return no table
Tableless == {"Print", "Connect"}

\* C5: pronoun threading.  When a statement has returned a table, frames['it']
\* is that table and so is frames[alias] if it has an INTO alias, and no other
\* name changes; when it has returned no table (PRINT, CONNECT) every frame,
\* `it` included, is as before and no alias is bound.
C5_PronounThreading ==
    [][ (Depth > 0 /\ Len(stack') = Depth /\ stack'[Depth].pc = Top.pc + 1) =>
            LET T      == stack'[Depth].result
                alias  == IntoAt(Top)
                before == contexts[Depth].frames
                after  == contexts'[Depth].frames
            IN  /\ (StatementAt(Top).cls \in Tableless) = (T = None)
                /\ T # None =>
                      /\ after["it"] = T
                      /\ alias # NoAlias => (alias \in DOMAIN after /\ after[alias] = T)
                      /\ DOMAIN after = DOMAIN before \cup ({alias} \ {NoAlias})
                      /\ \A name \in DOMAIN before \ {"it", alias} : after[name] = before[name]
                /\ T = None => after = before ]_vars

\* PRINT ... INTO a has executed where no table is named a
C5_Witness ==
    /\ InLoop /\ Top.pc > 1
    /\ Top.statements[Top.pc - 1].statement.cls = "Print"
    /\ Top.statements[Top.pc - 1].into = "a"
    /\ "a" \notin DOMAIN contexts[Depth].frames
    /\ contexts[Depth].frames["it"] # EmptyFrame

\* C6 as stated: whenever run_async returns, the value is the Context's `it`.
C6_ReturnsFinalIt ==
    ret.set => ret.value = contexts[Depth + 1].frames["it"]

\* C6: run_async returns what the last statement returned: the final `it` when
\* that statement returned a table, and None when it returned no table or the
\* Program is empty.
C6_ReturnsLastResult ==
    [][ (InLoop /\ ret'.set) =>
            /\ Top.pc = Len(Top.statements) + 1
            /\ IF Top.statements = << >>
               THEN ret'.value = None
               ELSE IF Top.statements[Len(Top.statements)].statement.cls \in Tableless
               THEN ret'.value = None
               ELSE ret'.value = contexts[Depth].frames["it"] /\ ret'.value # None ]_vars

\* a run whose last statement is a PRINT has returned None with a table in `it`
C6_Witness ==
    /\ ret.set /\ ret.value = None
    /\ Depth = 0
    /\ script.statements # << >>
    /\ script.statements[Len(script.statements)].statement.cls = "Print"
    /\ contexts[1].frames["it"] # EmptyFrame

\* the directory of the source of a call's Script, where it names one
HasDirname(f) == f.source # NoSource /\ Dirname(f.source) # << >>

\* the working directory set by the first n calls of the stack
RECURSIVE RunDir(_)
RunDir(n) ==
    IF n = 0 THEN StartDir
    ELSE IF stack[n].phase = "loop" /\ HasDirname(stack[n])
         THEN Resolve(RunDir(n - 1), Dirname(stack[n].source))
         ELSE RunDir(n - 1)

\* C7: run_async restores the working directory on every exit path, nested runs
\* included.  The working directory is always the one set by the calls still
\* running: the process's own when none is, and the invoking script's again
\* once a sub-script's run has ended by return, error or Quit.
C7_CwdRestored ==
    /\ cwd = RunDir(Depth)
    /\ \A i \in 1..Depth : stack[i].phase = "loop" => stack[i].old_cwd = RunDir(i - 1)

\* a script in jobs/ is running again after the sub-script in jobs/deep/ that
\* its RUN invoked has ended
C7_Witness ==
    /\ InLoop /\ Top.pc > 1
    /\ Top.statements[Top.pc - 1].statement.cls = "Run"
    /\ Top.statements[Top.pc - 1].statement.args[1].value = LeafPql
    /\ cwd = StartDir \o <<"jobs">>

\* the names a step of the invoking call can rebind: `it` and the alias of the
\* statement it is at
Rebound(f) == {"it"} \cup ({IntoAt(f)} \ {NoAlias})

\* C8 as stated: when a RUN returns, every table the sub-script's Context holds
\* under a name is in the invoking Context's frames under that name, and every
\* source of the sub-script's Context is in the invoking Context's sources.
C8_FramesShared ==
    [][ (Depth > 0 /\ ret.set) =>
            LET child   == contexts[Depth + 1]
                invoker == contexts'[Depth]
            IN  /\ \A name \in DOMAIN child.frames \ ({"ENV"} \cup Rebound(Top)) :
                      name \in DOMAIN invoker.frames /\ invoker.frames[name] = child.frames[name]
                /\ \A name \in DOMAIN child.sources :
                      name \in DOMAIN invoker.sources
                          /\ invoker.sources[name] = child.sources[name] ]_vars

\* C8: a sub-script's Context has its own frames and sources, filled from the
\* invoking Context's when the RUN builds it.  While the sub-script runs nothing
\* of the invoking Context changes, and when the RUN returns the invoking
\* Context's frames differ from those before the RUN only in `it` and the RUN's
\* INTO alias, and its sources are those before the RUN.
C8_FramesCopied ==
    [][ /\ \A i \in 1..Len(contexts') : i < Depth => contexts'[i] = contexts[i]
        /\ AtStatement("Run") => contexts'[Depth] = contexts[Depth]
        /\ (AtStatement("Run") /\ Len(stack') = Depth + 1) =>
              /\ \A name \in DOMAIN contexts[Depth].frames \ {"it", "ENV"} :
                    contexts'[Depth + 1].frames[name] = contexts[Depth].frames[name]
              /\ contexts'[Depth + 1].sources = contexts[Depth].sources
        /\ (Depth > 0 /\ ret.set) =>
              /\ \A name \in DOMAIN contexts[Depth].frames \ Rebound(Top) :
                    contexts'[Depth].frames[name] = contexts[Depth].frames[name]
              /\ DOMAIN contexts'[Depth].frames = DOMAIN contexts[Depth].frames \cup Rebound(Top)
              /\ contexts'[Depth].sources = contexts[Depth].sources
              /\ contexts'[Depth].frames["it"] = RunResult(ret.value) ]_vars

\* RUN jobs/sub.pql has returned: the sub-script bound a table to a, and the
\* invoking Context has no table of that name
C8_Witness ==
    /\ InLoop /\ Top.pc > 1
    /\ Top.statements[Top.pc - 1].statement.cls = "Run"
    /\ Top.statements[Top.pc - 1].statement.args[1].value = SubPql
    /\ Len(contexts) = Depth
    /\ "a" \notin DOMAIN contexts[Depth].frames

\* C9: QUIT terminates everything.  A Quit statement raises SystemExit at any
\* depth; while it travels no statement executes, every enclosing call ends
\* with it unchanged (the driver's except clauses do not wrap it), and the
\* caller of the outermost run, the REPL included, ends with it; after that
\* nothing happens.
C9_QuitTerminates ==
    [][ /\ AtStatement("Quit") =>
              /\ exc' = Raise("SystemExit", "0")
              /\ Len(stack') = Depth - 1
        /\ exc.type = "SystemExit" =>
              /\ ~event'.exec
              /\ IF Depth > 0
                 THEN exc' = exc /\ Len(stack') = Depth - 1
                 ELSE driver'.at = "exited" /\ driver'.outcome = "exit"
        /\ driver.at = "exited" => FALSE ]_vars

\* the Quit of a sub-script run from the prompt is passing the line that ran it
C9_Witness ==
    /\ exc.type = "SystemExit"
    /\ driver.mode = "repl" /\ driver.lines = MaxLines
    /\ Depth = 1
    /\ Top.pc = 1 /\ StatementAt(Top).cls = "Run"

\* the annotation the driver puts on an error of the statement a call is at
NoteAt(f) == [source |-> f.source, line |-> f.statements[f.pc].line]

\* a statement of the innermost call fails in the step: its execute raises, or
\* the sub-script its RUN awaits has raised, something other than SystemExit
Fails == Depth > 0 /\ event'.raised /\ exc'.type # "SystemExit"

\* C10 as stated: whenever a statement fails, with or without a source, the
\* error leaving run_async is a RuntimeError annotated with the source and the
\* statement's line.
C10_AlwaysAnnotated ==
    [][ Fails => /\ exc'.type = "RuntimeError"
                 /\ exc'.notes # << >>
                 /\ exc'.notes[1] = NoteAt(Top) ]_vars

\* C10: when a statement of a Script with a source fails, the error leaving
\* run_async is a RuntimeError annotated with the source and the line recorded
\* for the statement; in a Script without a source (loads) only a failed table
\* lookup is re-raised so, and every other error leaves as it was raised.
C10_AnnotatedWithSource ==
    [][ Fails =>
            LET annotated == /\ exc'.type = "RuntimeError"
                             /\ exc'.notes # << >>
                             /\ exc'.notes[1] = NoteAt(Top)
                             /\ exc # NoExc =>
                                   /\ exc'.notes = <<NoteAt(Top)>> \o exc.notes
                                   /\ exc'.msg = exc.msg
                lookup    == IF exc # NoExc THEN exc.type = "KeyError"
                             ELSE exc'.context = "KeyError"
            IN  /\ exc'.type # "KeyError"
                /\ Top.source # NoSource => annotated
                /\ (Top.source = NoSource /\ lookup) => annotated
                /\ (Top.source = NoSource /\ ~lookup) =>
                      IF exc # NoExc THEN exc' = exc
                      ELSE exc'.context = "None" /\ exc'.notes = << >> ]_vars

\* a READ refused in a Script without a source has left run_async as the bare
\* AssertionError
C10_Witness ==
    /\ exc = AssertionError("READ")
    /\ event.exec /\ event.raised
    /\ Depth = 0
    /\ script.source = NoSource

\* the run a line typed at the prompt starts when it is parsed on its own
LineCall(line, lineno) ==
    Call([statements |-> <<[line |-> lineno,
                            statement |-> ParseCommand(line).statement,
                            into |-> ParseCommand(line).into]>>,
          source |-> NoSource])

\* C11: REPL recovery.  A line that fails to parse, and a line whose run raises
\* an error, leave the loop at the prompt with every Context as it was before
\* the line; the driver's Context changes only when a line's statement has
\* returned; and the line read next, after failed lines too, is parsed as the
\* line it is and run against that Context.
C11_ReplRecovers ==
    [][ driver.mode = "repl" =>
            /\ (stack = << >> /\ IsException(exc)) =>
                  (driver'.at = "prompt" /\ contexts' = contexts)
            /\ (driver.at = "prompt" /\ driver'.lines = driver.lines + 1) =>
                  /\ contexts' = contexts
                  /\ IF ParseCommand(driver'.input[1]).raised = NoExc
                     THEN /\ driver'.at = "running"
                          /\ stack' = <<LineCall(driver'.input[1], lexer.lineno)>>
                     ELSE driver'.at = "prompt" /\ stack' = << >>
            /\ contexts'[1] # contexts[1] =>
                  /\ Depth = 1 /\ Len(stack') = 1
                  /\ stack'[1].pc = 2
                  /\ exc' = NoExc ]_vars

\* a call of lexer.token() that starts in block mode with a whole line ahead
InBlock ==
    /\ Lexing
    /\ lexer.state = "block"
    /\ \E i \in lexer.lexpos..Len(lexer.lexdata) : lexer.lexdata[i] = "\n"

\* the line of a RAW or END token: its text up to the line break
LineOf(value) == SubSeq(value, 1, Span(value, 1, NotNewline) - 1)

HasPlaceholder(s) ==
    \E i \in 1..Len(s) :
        /\ s[i] = "$"
        /\ i = 1 \/ s[i - 1] # "$"
        /\ Placeholder(s, i).kind \in {"named", "braced"}

\* the text has no $ at all
DollarFree(s) == \A i \in 1..Len(s) : s[i] # "$"

\* C13: template downgrade.  Every quoted literal lexes without error to one
\* token: a STRING holding the text when the text is $-free, a TEMPLATE when it
\* has a placeholder; and the term of a $-free literal evaluates to the value
\* the text evaluates to as a Template.
C13_TemplateDowngrade ==
    [][ LET text == Unquote(lexer.lexdata)
        IN  /\ (exc = NoExc /\ ~ret.set) =>
                  /\ exc' = NoExc
                  /\ ret'.set /\ ret'.value.type \in {"STRING", "TEMPLATE"}
                  /\ lexer'.lexpos = Len(lexer.lexdata) + 1
                  /\ DollarFree(text) => ret'.value = LexToken("STRING", text, 1)
                  /\ HasPlaceholder(text) => ret'.value = LexToken("TEMPLATE", text, 1)
            /\ (ret.set /\ ret.value.type \in {"STRING", "TEMPLATE"} /\ DollarFree(text)) =>
                  /\ ret'.value.value = text
                  /\ ret'.value.value = TemplateEvaluate(text) ]_vars

\* the SORT statement has the one key K
SortsBy(K) ==
    LET by == script.statements[1].statement.by
    IN  \/ Len(by) = 1 /\ by[1][1] = K
        \/ Len(by) = 0 /\ K = FirstColumn

\* the position in a table of the row with an index label
PositionOf(df, label) == CHOOSE i \in 1..Len(df) : df[i].row = label

\* the rows of a table are in the order SORT BY K asks for
IsSorted(df, K) ==
    LET by == script.statements[1].statement.by
        ascending == IF Len(by) = 0 THEN TRUE ELSE by[1][2]
    IN  \A i, j \in 1..Len(df) :
            i < j => IF ascending THEN df[i][K] <= df[j][K] ELSE df[i][K] >= df[j][K]

\* C14: sort stability.  SORT BY K returns the rows of the table ordered by K,
\* rows with equal K in the relative order they had, and returns an already
\* K-sorted table as it is.
C14_SortStable ==
    [][ \A K \in {"k", "j"} :
          SortsBy(K) =>
            LET df     == contexts[1].frames["it"]
                sorted == contexts'[1].frames["it"]
            IN  /\ Len(sorted) = Len(df)
                /\ \A i \in 1..Len(df) : \E n \in 1..Len(sorted) : sorted[n] = df[i]
                /\ IsSorted(sorted, K)
                /\ \A i, j \in 1..Len(sorted) :
                      (i < j /\ sorted[i][K] = sorted[j][K]) =>
                          PositionOf(df, sorted[i].row) < PositionOf(df, sorted[j].row)
                /\ IsSorted(df, K) => sorted = df ]_vars

\* the columns an expression of a SELECT stands for
Width(expr, df) == IF expr.cls = "*" THEN Len(df.columns) ELSE 1

\* the place in the result of the first column of the e-th expression
RECURSIVE PositionAt(_, _, _)
PositionAt(expressions, e, df) ==
    IF e = 1 THEN 1
    ELSE PositionAt(expressions, e - 1, df) + Width(expressions[e - 1], df)

\* the lengths of the columns the e-th expression yields, none for a scalar
Lengths(expr, df) ==
    IF expr.cls = "*" THEN {Len(df.index) : c \in 1..Len(df.columns)}
    ELSE IF TermValueOn(expr.term, df).kind = "series"
         THEN {Len(TermValueOn(expr.term, df).values)}
         ELSE {}

\* the row count the e-th expression, a scalar, is repeated to
Longest(expressions, e, df) ==
    LET others == UNION {Lengths(expressions[o], df) : o \in 1..Len(expressions) \ {e}}
    IN  IF others = {} THEN 1 ELSE CHOOSE n \in others : \A m \in others : m <= n

Doubled == <<Expression(BinaryTerm(Column("age"), Literal(Integer(2)), "*"), "doubled")>>

\* C15: select assembly.  The result of a SELECT has one column per selected
\* expression in declared order, `*` standing for all columns of the source in
\* their order; an aliased expression's column has its alias as name (age * 2
\* AS doubled gives the column doubled, twice the ages); a scalar-valued
\* expression gives its value repeated to the row count of the longest column
\* among the other expressions, 1 when all are scalars.
C15_SelectAssembly ==
    [][ (event'.exec /\ exc' = NoExc /\ script'.statements[1].statement.cls = "Select") =>
          LET expressions == script'.statements[1].statement.expressions
              df     == contexts[1].frames["it"]
              result == contexts'[1].frames["it"]
          IN  /\ Len(result.columns) = PositionAt(expressions, Len(expressions) + 1, df) - 1
              /\ \A e \in 1..Len(expressions) :
                   LET expr == expressions[e]
                       at   == PositionAt(expressions, e, df)
                   IN  IF expr.cls = "*"
                       THEN \A c \in 1..Len(df.columns) :
                               result.columns[at + c - 1].name = df.columns[c].name
                       ELSE /\ expr.alias # NoAlias => result.columns[at].name = expr.alias
                            /\ TermValueOn(expr.term, df).kind = "scalar" =>
                                 result.columns[at].values =
                                     [i \in 1..Longest(expressions, e, df) |->
                                         TermValueOn(expr.term, df).values[1]]
              /\ expressions = Doubled =>
                   /\ ColumnNames(result) = <<"doubled">>
                   /\ result.columns[1].values =
                          [i \in 1..Len(df.index) |->
                              Integer(2 * GetItem(df, "age").values[i].n)] ]_vars

\* the term evaluated is column op scalar
OnColumn == driver.input[1].l.cls = "Column"

\* the column c and the operands of the term
ColumnC == GetItem(contexts[1].frames["it"], "c").values

Execute(statement, context) ==
    CASE statement.cls = "Create" -> CreateExecute(statement, context)
      [] statement.cls = "Print"  -> PrintExecute(statement, context)
      [] statement.cls = "Put"    -> PutExecute(statement, context)

\* what run_async returns for statements that raise nothing, run from the
\* pc-th on in a Context
RECURSIVE RunAsync(_, _, _, _)
RunAsync(statements, pc, context, result) ==
    IF pc > Len(statements) THEN result
    ELSE LET done == Execute(statements[pc].statement, context)
         IN  RunAsync(statements, pc + 1,
                      UpdateContext(<<done.context>>, 1, done.result, statements[pc].into)[1],
                      done.result)

\* what the script of a row returns, run in a fresh child of the Context
RowResult(argv, parent) ==
    RunAsync(Load(NewScript, argv[1], cwd, lexer).statements, 1,
             ContextInit(parent, EmptyDict, argv, AllAllowed), None)

\* pd.concat(tables, ignore_index=True): the table made of the rows of each
Concat(tables) ==
    [id |-> "concat", env |-> EmptyDict, argv |-> [i \in 1..Len(tables) |-> tables[i].id]]

\* the arguments of the rows of the RUN that the step runs
RowArgs ==
    ZipArgs([a \in 1..Len(script'.statements[1].statement.args) |->
                TermValueOn(script'.statements[1].statement.args[a],
                            contexts[1].frames["it"])])

\* C17: vectorized RUN.  When an argument of RUN is a column of a table of
\* several rows, the script is run once per row in a fresh child Context whose
\* ARGV are the row's arguments, and the RUN gives the concatenation of the
\* results of the rows that have one, the empty table if none has.
C17_VectorizedRun ==
    [][ ( /\ event'.exec
          /\ contexts[1].allow_run
          /\ Len(contexts[1].frames["it"].index) >= 2
          /\ \A i \in 1..Len(RowArgs) : Resolve(cwd, RowArgs[i][1]) \in DOMAIN FileSystem )
        => LET results == [i \in 1..Len(RowArgs) |-> RowResult(RowArgs[i], contexts[1])]
               kept    == SelectSeq(results, LAMBDA t : t # None)
           IN  /\ exc' = NoExc
               /\ contexts'[1].frames["it"] =
                      IF kept = << >> THEN EmptyFrame ELSE Concat(kept) ]_vars

\* the line of the text the run is at, and whether it calls a function that
\* function_ops does not have under its lower-case name
LineAt == driver.input[Top.pc]

CallsUnknown(cmd) ==
    cmd.verb = "PRINT" /\ IsCall(cmd.arg) /\ Lower(cmd.arg[1]) \notin FunctionOps

\* C18: unknown functions fail late.  A text that calls a function that is not
\* in the dispatch table parses; the statements before the call are executed
\* and what they did stays; the run fails with the "Unknown function" runtime
\* error in the step that evaluates the call and in no other; a name that is in
\* the table in lower case is found however it is written.
C18_UnknownFailsLate ==
    [][ /\ driver.at = "start" =>
             /\ driver'.outcome # "raised"
             /\ Len(script'.statements) = Len(driver'.input)
        /\ event'.exec =>
             IF CallsUnknown(LineAt) /\ TableOf(LineAt) \in DOMAIN contexts[Depth].frames
             THEN /\ exc'.type = "RuntimeError" /\ exc'.msg = "Unknown function"
                  /\ \A k \in 1..(Top.pc - 1) : ~CallsUnknown(driver.input[k])
                  /\ contexts' = contexts
                  /\ \A k \in 1..(Top.pc - 1) :
                       Top.statements[k].into # NoAlias =>
                           Top.statements[k].into \in DOMAIN contexts'[Depth].frames
             ELSE exc'.msg # "Unknown function"
        /\ (~event'.exec /\ exc'.msg = "Unknown function") => exc' = exc ]_vars

C18_Witness ==
    /\ driver.outcome = "raised"
    /\ driver.error.type = "RuntimeError" /\ driver.error.msg = "Unknown function"
    /\ Len(driver.input) = 3 /\ CallsUnknown(driver.input[2])
    /\ "a" \in DOMAIN contexts[1].frames /\ contexts[1].frames["a"] = Table("T1")
    /\ "b" \notin DOMAIN contexts[1].frames

\* a call handed to a thread has not been taken back by its statement
Pending == driver.input # << >>

\* the step executes a statement of the class
Executes(classes) == event'.exec /\ Current.cls \in classes

\* the guarantee of C19 in every step: a statement starts only when no call is in
\* flight; while one is, neither a Context nor a call of run_async changes; the
\* statement that takes a call back stores what it returned in `it` and only
\* then moves to the next statement; the position of a call of run_async
\* moves one statement at a time, and only that of the innermost call
Sequential ==
    /\ event'.exec => ~Pending
    /\ (Pending /\ Pending') => (contexts' = contexts /\ stack' = stack)
    /\ (Pending /\ ~Pending') =>
         /\ driver.input[1].done
         /\ driver.input[1].error = NoExc =>
               /\ contexts'[Depth].frames["it"] = driver.input[1].data
               /\ Depth' = Depth /\ Top'.pc = Top.pc + 1
    /\ \A d \in 1..Depth :
         (d <= Depth' /\ stack'[d].pc # stack[d].pc) =>
             /\ d = Depth' /\ stack'[d].pc = stack[d].pc + 1
             /\ ~Pending'

EndsOpen(text) ==
    /\ FirstRaised([i \in 1..Len(text) |-> ParseCommand(text[i])]) # 0
    /\ OpensBlock(text[FirstRaised([i \in 1..Len(text) |-> ParseCommand(text[i])])])

WrittenForm == driver.input[1]

\* the step executes the parsed statement, of that verb, on a table there is
ExecutesForm(verb) ==
    /\ driver.at = "running" /\ event'.exec
    /\ WrittenForm.verb = verb
    /\ TableOf(WrittenForm) \in DOMAIN contexts[1].frames

\* C21: WRITE without TO.  In each of its forms (WRITE, WRITE table, with or
\* without AS format) the statement writes the table to the standard output,
\* returns no table and leaves every frame, `it` included, as it was.
C21_WriteStdout ==
    [][ (ExecutesForm("WRITE") /\ WrittenForm.location = << >>) =>
            /\ driver'.outcome = "returned"
            /\ event'.io = "stdout"
            /\ contexts' = contexts ]_vars

\* C22: dialect resolution.  A READ or WRITE written with an AS clause uses
\* exactly the dialect built from the clause, whatever the extension of the
\* location; without an AS clause the dialect is the one inferred from the
\* extension of the location.
C22_DialectResolution ==
    [][ (ExecutesForm("READ") \/ ExecutesForm("WRITE")) =>
            IF WrittenForm.as # << >>
            THEN driver'.result = PFormat(WrittenForm.as)
            ELSE driver'.result = Infer(Str(WrittenForm.location)).dialect ]_vars

\* C23: CONNECT from a script.  A line CONNECT alias TO url AS SQL is parsed
\* into the statement that connects alias to url; executed in a Context that
\* allows CONNECT, and the url being one a source can be opened for, the
\* statement binds alias to the open source in the sources of the Context,
\* returns no table and leaves every frame as it was.
C23_ConnectRegisters ==
    [][ /\ (driver.mode = "repl" /\ driver.at = "prompt" /\ lexer.state = "INITIAL"
            /\ driver'.lines = driver.lines + 1
            /\ driver'.input[1].verb = "CONNECT") =>
               /\ driver'.at = "running"
               /\ stack'[1].statements[1].statement
                    = Connect(driver'.input[1].table, driver'.input[1].arg, "SQL")
        /\ (event'.exec /\ Current.cls = "Connect" /\ contexts[Depth].allow_connect
            /\ ~event'.raised) =>
               /\ Current.alias \in DOMAIN contexts'[Depth].sources
               /\ contexts'[Depth].sources[Current.alias] = SQLSource(Current.url)
               /\ contexts'[Depth].frames = contexts[Depth].frames ]_vars

\* the keys a written SORT asks for: the first column, ascending, without BY
KeysOf(form) ==
    IF form.by = << >> THEN <<<<FirstColumn, TRUE>>>>
    ELSE [n \in 1..Len(form.by) |-> <<form.by[n][1], Upper(form.by[n][2]) # "DESC">>]

\* the rows of sorted are those of df, in the order of the keys
InOrder(df, sorted, keys) ==
    /\ Len(sorted) = Len(df)
    /\ \A i \in 1..Len(df) : \E n \in 1..Len(sorted) : sorted[n] = df[i]
    /\ \A i, j \in 1..Len(sorted) :
          i < j => ~Precedes(sorted[j], sorted[i],
                             [n \in 1..Len(keys) |-> keys[n][1]],
                             [n \in 1..Len(keys) |-> keys[n][2]], 1)

\* C24: SORT without BY.  `SORT table` returns the table sorted by its first
\* column in ascending order; with a BY clause it returns it sorted by the
\* keys, each in its own direction, ascending unless DESC is written.
C24_SortDefaultKey ==
    [][ (driver.at = "running" /\ event'.exec) =>
            /\ driver'.outcome = "returned"
            /\ InOrder(contexts[1].frames[TableOf(driver.args[1])],
                       contexts'[1].frames["it"], KeysOf(driver.args[1])) ]_vars

\* the operand of the unary term evaluated is the column c
OfColumn == driver.input[1].term.cls = "Column"

\* C25: broadcasting for unary operators.  For -, NOT, IS NA and IS NOT NA, the
\* operator on a column gives a column of the same length with the operator
\* applied to each element, on a scalar it gives the scalar the operator
\* gives, and IS NOT NA is in both cases the negation, element by element, of
\* IS NA.
C25_UnaryBroadcast ==
    [][ event'.exec =>
          LET term == driver.input[1]
          IN  /\ exc' = NoExc
              /\ IF OfColumn
                 THEN /\ ret'.value.kind = "series"
                      /\ Len(ret'.value.values) = Len(ColumnC)
                      /\ \A i \in 1..Len(ColumnC) :
                           /\ ret'.value.values[i] = UnaryOperator(term.op, ColumnC[i])
                           /\ term.op = "is_not_na" =>
                                 ret'.value.values[i]
                                   = UnaryOperator("NOT", UnaryOperator("is_na", ColumnC[i]))
                 ELSE /\ ret'.value = Scalar(UnaryOperator(term.op, term.term.value))
                      /\ term.op = "is_not_na" =>
                            ret'.value.values[1]
                              = UnaryOperator("NOT", UnaryOperator("is_na", term.term.value))
      ]_vars

\* the DataSource has had close() called
Released(source) == driver.input[source.id] > 0

\* no sources map holds a released DataSource
NoneReleased ==
    \A i \in 1..Len(contexts) : \A name \in DOMAIN contexts[i].sources :
        ~Released(contexts[i].sources[name])

\* close(name) releases the source once and drops the entry, or fails and
\* changes nothing
ClosesOnce ==
    [][ event'.io = "close" =>
          LET i    == driver'.lines
              name == driver'.args[1]
          IN  IF name \in DOMAIN contexts[i].sources
              THEN /\ exc' = NoExc
                   /\ driver'.input[contexts[i].sources[name].id] = 1
                   /\ \A id \in 1..Len(driver.input) :
                        id # contexts[i].sources[name].id => driver'.input[id] = driver.input[id]
                   /\ contexts'[i].sources = DictDel(contexts[i].sources, name)
              ELSE /\ exc' # NoExc
                   /\ \A j \in 1..Len(contexts) : contexts'[j].sources = contexts[j].sources
                   /\ driver'.input = driver.input ]_vars

\* C26: source lifecycle.  Context.close(name) releases the named DataSource
\* exactly once and removes its entry; close of a name that is not registered
\* fails and leaves sources unchanged; and after any sequence of register,
\* close and child-Context creations no sources map of any Context (the one
\* that closed, its parent, a child that inherited) maps an alias to a
\* DataSource that has been released.
C26_SourceLifecycle == []NoneReleased /\ ClosesOnce

\* C27: SELECT well-formedness.  For every source table and expression list
\* (`*` together with named columns, the same column twice, an alias equal to
\* another column's name, unnamed scalars named _N), the columns of the result
\* of a SELECT have pairwise distinct names and all the same length.
C27_SelectWellFormed ==
    [][ (event'.exec /\ exc' = NoExc /\ script'.statements[1].statement.cls = "Select") =>
          LET result == contexts'[1].frames["it"]
          IN  /\ \A c, d \in 1..Len(result.columns) :
                     c # d => result.columns[c].name # result.columns[d].name
              /\ \A c \in 1..Len(result.columns) :
                     Len(result.columns[c].values) = Len(result.index) ]_vars

\* the module-level lexer as lex.lex() builds it
FreshLexer == [lineno |-> 1, state |-> "INITIAL"]

\* C28: parses are independent.  The lexer begins every Script.loads call in
\* normal mode with its line counter at 1, whatever the earlier calls did
\* (returned, raised a syntax error, ended inside an unterminated <<TOKEN
\* block), so the call leaves the Script and raises what a first call with
\* the same text does, and the statements of a text that parses are numbered
\* from line 1.
C28_ParsesIndependent ==
    [][ driver'.lines = driver.lines + 1 =>
          LET first == Loads(script, driver'.input, driver'.args, FreshLexer, 1)
          IN  /\ lexer = FreshLexer
              /\ script' = [statements |-> first.statements, source |-> first.source]
              /\ driver'.error = first.raised
              /\ driver'.outcome = "returned" =>
                    \A i \in 1..Len(script'.statements) : script'.statements[i].line = i
      ]_vars

\* the words with every keyword in upper case
InUpperCase(phrase) ==
    [phrase EXCEPT !.tokens = [i \in 1..Len(phrase.tokens) |->
                                  IF Upper(phrase.tokens[i]) \in Reserved
                                  THEN Upper(phrase.tokens[i]) ELSE phrase.tokens[i]]]

\* C29: keyword case-insensitivity.  The lexer gives a reserved word its
\* keyword type in whatever case it is written, and what the parser builds
\* does not depend on that case: `not x` is the term of `NOT x`, `with header`
\* and `no header` give the header option of `WITH HEADER` and `NO HEADER`,
\* and no spelling of a keyword makes the parse raise anything but
\* SyntaxError.
C29_KeywordCase ==
    [][ /\ driver'.at = "lexed" =>
              driver'.args = Types(InUpperCase(driver.input[1]).tokens)
        /\ event'.exec =>
              /\ exc'.type \in {"None", "SyntaxError"}
              /\ exc' = PPhrase(InUpperCase(driver.input[1])).raised
              /\ exc' = NoExc => ret'.value = PPhrase(InUpperCase(driver.input[1])).value
      ]_vars

\* the arguments of the RUN at hand, evaluated on its table
ArgsAtRun ==
    [i \in 1..Len(Current.args) |->
        Evaluate(Current.args[i], contexts[Depth].frames[Current.table])]

\* C30: sub-script isolation of the pronoun.  The Context a RUN builds for its
\* sub-script starts with an empty `it`, an ENV frame of its own (the invoking
\* Context's env with ARGV the evaluated arguments of the RUN) and every other
\* frame the invoking Context has at that moment; while the sub-script runs,
\* `it` and ENV of the invoking Contexts do not change; and the step in which
\* the RUN returns sets the invoking Context's `it` to what the sub-script
\* returned, or to an empty table when it returned none.
C30_PronounIsolated ==
    [][ /\ \A i \in 1..Len(contexts') :
              i < Depth => /\ contexts'[i].frames["it"] = contexts[i].frames["it"]
                           /\ contexts'[i].frames["ENV"] = contexts[i].frames["ENV"]
        /\ AtStatement("Run") =>
              /\ contexts'[Depth].frames["it"] = contexts[Depth].frames["it"]
              /\ contexts'[Depth].frames["ENV"] = contexts[Depth].frames["ENV"]
        /\ (AtStatement("Run") /\ Len(stack') = Depth + 1) =>
              /\ contexts'[Depth + 1].frames["it"] = EmptyFrame
              /\ contexts'[Depth + 1].frames["ENV"] = EnvFrame(contexts[Depth].env, ArgsAtRun)
              /\ DOMAIN contexts'[Depth + 1].frames = DOMAIN contexts[Depth].frames
              /\ \A name \in DOMAIN contexts[Depth].frames \ {"it", "ENV"} :
                    contexts'[Depth + 1].frames[name] = contexts[Depth].frames[name]
        /\ (Depth > 0 /\ ret.set) =>
              /\ contexts'[Depth].frames["it"]
                    = (IF ret.value = None THEN EmptyFrame ELSE ret.value)
              /\ contexts'[Depth].frames["ENV"] = contexts[Depth].frames["ENV"] ]_vars

\* a sub-script is running and has a table in its `it` that is not the `it`
\* of the Context that invoked it
C30_Witness ==
    /\ Depth >= 2 /\ InLoop
    /\ contexts[Depth].frames["it"] # EmptyFrame
    /\ contexts[Depth - 1].frames["it"] # contexts[Depth].frames["it"]
    /\ contexts[Depth].frames["ENV"].argv # << >>

====
